---- MODULE Spec2Model ----
(***************************************************************************)
(* A model of tf.sdk.DocumentStore (src/tf/sdk.py): the Python layer that  *)
(* wraps the vector table (tf_rust.VectorStore) with one threading.Lock    *)
(* and a ThreadPoolExecutor of four workers.                               *)
(*                                                                         *)
(* A caller is one client thread making one API call.  A task is one       *)
(* future submitted to the executor by a parallel add_batch.  The table    *)
(* itself (tf_rust.VectorStore) is not part of the Python sources; its     *)
(* operations StoreSet, StoreUpdate, StoreRm, StoreGet, StoreLen are       *)
(* modelled from the design document, each as one atomic table operation.  *)
(***************************************************************************)
EXTENDS Integers, Sequences, FiniteSets, TLC

VARIABLES
    table,    \* the vector table: a function from the ids present to records
    table0,   \* the table as it was when the callers were started (history)
    lock,     \* holder of DocumentStore._lock, or NoThread
    pc,       \* per caller: its position in the call it is making
    cur,      \* per caller: the call it is making (operation and arguments)
    idx,      \* per caller: loop index of add_batch / delete_batch
    result,   \* per caller: "pending", "ok" or the exception raised
    ret,      \* per caller: the value returned by a read
    tasks,    \* the executor's futures, in submission order
    seen,     \* per caller in get: the values its id had since the get began
    lastw,    \* per id: the writer (caller, entry) that last wrote or removed it
    executor  \* DocumentStore._executor: "running", or "shutdown"

vars == <<table, table0, lock, pc, cur, idx, result, ret, tasks, seen, lastw, executor>>

-----------------------------------------------------------------------------
(* Bounds of the model *)

MaxCallers == 2     \* concurrent callers in the general specification
MaxBatch == 2       \* longest batch in the general specification
MaxPoolBatch == 3   \* longest batch in the worker-pool specification
MaxBatchCallers == 1 \* callers that may call add_batch in the general specification
MaxK == 3           \* largest k of a search
MaxSearchers == 2   \* concurrent callers in the search specification
MaxDimension == 3   \* largest dimension asked of the constructor

(* Program constants *)

max_workers == 4    \* ThreadPoolExecutor(max_workers=4)
NumAddThreads == 5  \* threads of test_concurrent_writes
Dim == 2            \* the store's dimension

-----------------------------------------------------------------------------
(* Values *)

None == "None"
NoThread == <<>>
NoTag == <<>>
CallerId(c) == <<"caller", c>>
TaskId(k) == <<"task", k>>
Tag(c, i) == <<c, i>>

Ids == {"p", "q"}

\* doc.get(key, default) on a document dictionary
DocGet(doc, key, default) == IF key \in DOMAIN doc THEN doc[key] ELSE default

\* Documents as the dictionaries handed to add_batch
DocP  == [id |-> "p", content |-> "hi", title |-> "A", summary |-> "S1"]
DocP2 == [id |-> "p", content |-> "yo", title |-> "B", url |-> "U"]
DocQ  == [id |-> "q", content |-> "yo"]
DocNoContent == [id |-> "q"]

ValidDocs == {DocP, DocP2, DocQ}
Docs == ValidDocs \cup {DocNoContent}

\* A test that looks only for the keys
MissingKeyOnly(doc) == "id" \notin DOMAIN doc \/ "content" \notin DOMAIN doc

\* The test of add_batch on one entry: `if not doc_id or not content`
Missing(doc) ==
    LET doc_id == DocGet(doc, "id", None)
        content == DocGet(doc, "content", None)
    IN  doc_id \in {None, ""} \/ content \in {None, ""}

\* `raise ValueError(f"Document missing required fields 'id' and/or 'content':
\* {doc}")` for entry i: the exception, with the positions of the entries its
\* message shows
ValidationReport(docs, i) == [error |-> "ValueError", named |-> {i}]

\* The arguments add_batch passes to add for one entry
AddArgsSwapped(doc) ==
    [doc_id  |-> DocGet(doc, "id", None),
     content |-> DocGet(doc, "content", None),
     title   |-> DocGet(doc, "title", ""),
     url     |-> DocGet(doc, "summary", ""),
     summary |-> DocGet(doc, "url", "")]

AddArgs(doc) ==
    [doc_id  |-> DocGet(doc, "id", None),
     content |-> DocGet(doc, "content", None),
     title   |-> DocGet(doc, "title", ""),
     url     |-> DocGet(doc, "url", ""),
     summary |-> DocGet(doc, "summary", "")]

-----------------------------------------------------------------------------
(* The embedder: encode(text) *)

Hot(text) == IF text = "hi" THEN 1 ELSE 2
Embed(text) == [i \in 1..Dim |-> IF i = Hot(text) THEN 1 ELSE 0]

\* What a call of embedder.encode(text) can produce: the vector, the vector
\* wrapped in a list, a vector of another length, or an exception.
Healthy(text) ==
    {[kind |-> "flat", v |-> Embed(text)],
     [kind |-> "nested", rows |-> <<Embed(text)>>]}
EncodeOutcomes(text) ==
    Healthy(text) \cup
    {[kind |-> "flat", v |-> SubSeq(Embed(text), 1, Dim - 1)],
     [kind |-> "raise"]}

\* embedding_callback: the result of encode, unwrapped if it is a list of lists
NoFlatten(e) == e

Flatten(e) ==
    IF e.kind = "nested" /\ Len(e.rows) > 0
    THEN [kind |-> "flat", v |-> e.rows[1]]
    ELSE e

-----------------------------------------------------------------------------
(* The vector table (tf_rust.VectorStore) *)

EmptyTable == [i \in {} |-> 0]

Meta(rec) == [title |-> rec.title, url |-> rec.url, summary |-> rec.summary]
NoMeta == [absent |-> TRUE]

Put(tbl, id, rec) == [i \in DOMAIN tbl \cup {id} |-> IF i = id THEN rec ELSE tbl[i]]

\* set(doc_id, content, title, url, summary, callback) once the callback has
\* produced e: the record is inserted only if e is a vector of length Dim.
StoreSetEarly(tbl, a, e) ==
    LET rec(v) == [vector |-> v, title |-> a.title, url |-> a.url, summary |-> a.summary]
    IN  IF e.kind = "raise"
        THEN [table |-> Put(tbl, a.doc_id, rec(<<>>)), result |-> "EmbeddingError"]
        ELSE IF e.kind # "flat"
        THEN [table |-> tbl, result |-> "TypeError"]
        ELSE IF Len(e.v) # Dim
        THEN [table |-> Put(tbl, a.doc_id, rec(e.v)), result |-> "DimensionMismatch"]
        ELSE [table |-> Put(tbl, a.doc_id, rec(e.v)), result |-> "ok"]

\* A set that keeps, for an id it already holds, the fields the new record
\* leaves empty
StoreSetMerge(tbl, a, e) ==
    LET keep(f, new) == IF a.doc_id \in DOMAIN tbl /\ new = "" THEN tbl[a.doc_id][f] ELSE new
    IN  IF e.kind = "raise"
        THEN [table |-> tbl, result |-> "EmbeddingError"]
        ELSE IF e.kind # "flat"
        THEN [table |-> tbl, result |-> "TypeError"]
        ELSE IF Len(e.v) # Dim
        THEN [table |-> tbl, result |-> "DimensionMismatch"]
        ELSE [table |-> Put(tbl, a.doc_id,
                            [vector |-> e.v, title |-> keep("title", a.title),
                             url |-> keep("url", a.url),
                             summary |-> keep("summary", a.summary)]),
              result |-> "ok"]

StoreSet(tbl, a, e) ==
    IF e.kind = "raise"
    THEN [table |-> tbl, result |-> "EmbeddingError"]
    ELSE IF e.kind # "flat"
    THEN [table |-> tbl, result |-> "TypeError"]
    ELSE IF Len(e.v) # Dim
    THEN [table |-> tbl, result |-> "DimensionMismatch"]
    ELSE [table |-> Put(tbl, a.doc_id,
                        [vector |-> e.v, title |-> a.title,
                         url |-> a.url, summary |-> a.summary]),
          result |-> "ok"]

\* update(doc_id, title, url, summary): None leaves a field as it is
StoreUpdateLenient(tbl, id, title, url, summary) ==
    IF id \notin DOMAIN tbl
    THEN [table |-> tbl, result |-> "ok"]
    ELSE [table |-> [tbl EXCEPT ![id] =
                        [vector  |-> @.vector,
                         title   |-> IF title = None THEN @.title ELSE title,
                         url     |-> IF url = None THEN @.url ELSE url,
                         summary |-> IF summary = None THEN @.summary ELSE summary]],
          result |-> "ok"]

StoreUpdate(tbl, id, title, url, summary) ==
    IF id \notin DOMAIN tbl
    THEN [table |-> tbl, result |-> "NotFound"]
    ELSE [table |-> [tbl EXCEPT ![id] =
                        [vector  |-> @.vector,
                         title   |-> IF title = None THEN @.title ELSE title,
                         url     |-> IF url = None THEN @.url ELSE url,
                         summary |-> IF summary = None THEN @.summary ELSE summary]],
          result |-> "ok"]

\* rm(doc_id)
StoreRmAll(tbl, id) == EmptyTable

StoreRm(tbl, id) == [i \in DOMAIN tbl \ {id} |-> tbl[i]]

\* get(doc_id): the metadata of the record, or nothing
StoreGetTorn(tbl, id) ==
    IF id \in DOMAIN tbl
    THEN [title |-> tbl[id].title, url |-> "", summary |-> tbl[id].summary]
    ELSE NoMeta

StoreGet(tbl, id) == IF id \in DOMAIN tbl THEN Meta(tbl[id]) ELSE NoMeta

\* len()
StoreLen(tbl) == Cardinality(DOMAIN tbl)

\* set_vector(doc_id, vector, title, url): a record with a vector given by the
\* caller; the summary of such a record is empty
StoreSetVector(tbl, id, v, title, url) ==
    IF Len(v) # Dim
    THEN [table |-> tbl, result |-> "DimensionMismatch"]
    ELSE [table |-> Put(tbl, id, [vector |-> v, title |-> title,
                                  url |-> url, summary |-> ""]),
          result |-> "ok"]

-----------------------------------------------------------------------------
(* The similarity ranker of the table: search(query_vector, k) *)

Min(a, b) == IF a <= b THEN a ELSE b

\* Ascending order of ids, given as the list of all ids in that order
IdOrder == <<"a", "b", "c", "d", "p", "q">>
IdPos(id) == CHOOSE i \in 1..Len(IdOrder) : IdOrder[i] = id
IdBefore(x, y) == IdPos(x) < IdPos(y)

RECURSIVE DotTo(_, _, _)
DotTo(u, v, n) == IF n = 0 THEN 0 ELSE DotTo(u, v, n - 1) + u[n] * v[n]
Dot(u, v) == DotTo(u, v, Len(u))

\* Cosine similarity of q and v, 0 if either has norm zero.  The score is kept
\* exactly, as the signed square of the cosine written as a fraction num/den
\* with den > 0; the order of these fractions is the order of the cosines.
Score(q, v) ==
    LET d == Dot(q, v)
        n == Dot(q, q) * Dot(v, v)
    IN  IF n = 0
        THEN [num |-> 0, den |-> 1]
        ELSE [num |-> (IF d < 0 THEN 0 - d * d ELSE d * d), den |-> n]

ScoreLess(s, t) == s.num * t.den < t.num * s.den
ScoreEq(s, t) == s.num * t.den = t.num * s.den

\* x is ranked before y: higher score, or equal score and lower id
Better(tbl, q, x, y) ==
    LET sx == Score(q, tbl[x].vector)
        sy == Score(q, tbl[y].vector)
    IN  ScoreLess(sy, sx) \/ (ScoreEq(sx, sy) /\ IdBefore(x, y))

\* One result of the ranker
HitWithVector(tbl, q, id) ==
    [id |-> id, score |-> Score(q, tbl[id].vector), vector |-> tbl[id].vector,
     title |-> tbl[id].title, url |-> tbl[id].url, summary |-> tbl[id].summary]

Hit(tbl, q, id) ==
    [id |-> id, score |-> Score(q, tbl[id].vector),
     title |-> tbl[id].title, url |-> tbl[id].url, summary |-> tbl[id].summary]

\* The id at position i of the ranking: exactly i - 1 ids are ranked before it
Ranked(tbl, q, i) ==
    CHOOSE x \in DOMAIN tbl :
        Cardinality({y \in DOMAIN tbl : Better(tbl, q, y, x)}) = i - 1

\* search(query_vector, k): the k best records, best first
StoreSearch(tbl, q, k) ==
    IF Len(q) # Dim
    THEN [result |-> "DimensionMismatch", hits |-> <<>>]
    ELSE [result |-> "ok",
          hits |-> [i \in 1..Min(k, StoreLen(tbl)) |-> Hit(tbl, q, Ranked(tbl, q, i))]]

-----------------------------------------------------------------------------
(* The calls a caller can make *)

Batches(S, n) == UNION {[1..k -> S] : k \in 0..n}

\* add(doc_id, content, title="", url="", summary=""): the signature's defaults
AddDefaults(d) ==
    [doc_id  |-> d.id,
     content |-> d.content,
     title   |-> IF "title" \in DOMAIN d THEN d.title ELSE "",
     url     |-> IF "url" \in DOMAIN d THEN d.url ELSE "",
     summary |-> IF "summary" \in DOMAIN d THEN d.summary ELSE ""]

AddCalls == {[op |-> "add", a |-> AddDefaults(d)] : d \in ValidDocs}
BatchCalls(S, n) ==
    {[op |-> "add_batch", docs |-> b, parallel |-> p] : b \in Batches(S, n), p \in BOOLEAN}
GetCalls == {[op |-> "get", id |-> i] : i \in Ids}

\* update(doc_id, title=None, url=None, summary=None): the signature's defaults
\* applied to the keyword arguments kw the caller wrote
UpdateDefaultsEmpty(kw) ==
    [title   |-> DocGet(kw, "title", ""),
     url     |-> DocGet(kw, "url", ""),
     summary |-> DocGet(kw, "summary", "")]

UpdateDefaults(kw) ==
    [title   |-> DocGet(kw, "title", None),
     url     |-> DocGet(kw, "url", None),
     summary |-> DocGet(kw, "summary", None)]

UpdateKwargs == {[title |-> "T"], [summary |-> "S2"]}
UpdateCalls ==
    {[op |-> "update", id |-> i, kw |-> kw,
      title |-> UpdateDefaults(kw).title,
      url |-> UpdateDefaults(kw).url,
      summary |-> UpdateDefaults(kw).summary] : i \in Ids, kw \in UpdateKwargs}
DeleteCalls == {[op |-> "delete", id |-> i] : i \in Ids}
DeleteBatchCalls == {[op |-> "delete_batch", ids |-> b] : b \in Batches(Ids, MaxBatch)}
CountCalls == {[op |-> "count"]}

-----------------------------------------------------------------------------
(* search, search_by_vector, search_streaming *)

\* The exception of the embedder itself, as it leaves
\* `self.embedder.encode(query)` when encode raises
ProviderError == "ProviderError"

\* `if isinstance(query_embedding, list) and ... isinstance(query_embedding[0],
\* list): query_embedding = query_embedding[0]`
QueryFlatten(e) ==
    IF e.kind = "nested" /\ Len(e.rows) > 0
    THEN [kind |-> "flat", v |-> e.rows[1]]
    ELSE e

\* Objects built with the title and the url taken from each other's key
ObjectOfSwapped(r) ==
    [id |-> r.id, score |-> r.score,
     title |-> DocGet(r, "url", ""),
     url |-> DocGet(r, "title", ""),
     summary |-> DocGet(r, "summary", "")]

\* SearchResult(id=r['id'], score=r['score'], title=r.get('title', ''), ...)
\* in search
ObjectOf(r) ==
    [id |-> r.id, score |-> r.score,
     title |-> DocGet(r, "title", ""),
     url |-> DocGet(r, "url", ""),
     summary |-> DocGet(r, "summary", "")]

\* The same construction in the loop of search_streaming
StreamObjectOfSwapped(r) ==
    [id |-> r.id, score |-> r.score,
     title |-> DocGet(r, "title", ""),
     url |-> DocGet(r, "summary", ""),
     summary |-> DocGet(r, "url", "")]

StreamObjectOf(r) ==
    [id |-> r.id, score |-> r.score,
     title |-> DocGet(r, "title", ""),
     url |-> DocGet(r, "url", ""),
     summary |-> DocGet(r, "summary", "")]

\* What search returns for the raw results of the table
SearchReturnShort(raw, return_objects) ==
    IF return_objects
    THEN [i \in 1..(Len(raw) - 1) |-> ObjectOf(raw[i])]
    ELSE raw

SearchReturnReversed(raw, return_objects) ==
    IF return_objects
    THEN [i \in 1..Len(raw) |-> ObjectOf(raw[Len(raw) + 1 - i])]
    ELSE raw

SearchReturn(raw, return_objects) ==
    IF return_objects
    THEN [i \in 1..Len(raw) |-> ObjectOf(raw[i])]
    ELSE raw

Ks == 0..MaxK
QueryTexts == {"hi"}
\* Query vectors: along an axis, between the axes, of norm zero, pointing
\* away, and of the wrong length
QueryVectors == {<<1, 0>>, <<2, 1>>, <<0, 0>>, <<0 - 1, 0>>, <<1>>}

SearchCalls ==
    {[op |-> "search", query |-> t, k |-> k, return_objects |-> b] :
        t \in QueryTexts, k \in Ks, b \in BOOLEAN}
SearchByVectorCalls ==
    {[op |-> "search_by_vector", vector |-> v, k |-> k] : v \in QueryVectors, k \in Ks}
StreamCalls ==
    {[op |-> "search_streaming", query |-> t, k |-> k] : t \in QueryTexts, k \in Ks}

\* VectorStoreWrapper.add_document_with_vector(doc_id, vector, title, url) on
\* the same table
AddVectorCalls ==
    {[op |-> "add_document_with_vector", id |-> "d", vector |-> v,
      title |-> "D", url |-> "U"] : v \in {<<0, 0>>, <<1>>}}

\* The writes that run next to the searches
SearchWrites ==
    {[op |-> "add", a |-> AddDefaults(DocQ)]}
    \cup AddVectorCalls
    \cup {[op |-> "update", id |-> "a", kw |-> [title |-> "T"],
           title |-> UpdateDefaults([title |-> "T"]).title,
           url |-> UpdateDefaults([title |-> "T"]).url,
           summary |-> UpdateDefaults([title |-> "T"]).summary]}
    \cup {[op |-> "delete", id |-> "a"]}

\* The first caller makes a search of any kind; the others make a write, a
\* get, or a streaming search
SearchMenu(c) ==
    IF c = 1
    THEN SearchCalls \cup SearchByVectorCalls \cup StreamCalls
    ELSE SearchWrites \cup StreamCalls \cup {[op |-> "get", id |-> i] : i \in {"a", "q"}}

-----------------------------------------------------------------------------

SingleCalls ==
    AddCalls \cup GetCalls \cup UpdateCalls \cup DeleteCalls \cup DeleteBatchCalls
    \cup CountCalls

Calls == SingleCalls \cup BatchCalls(Docs, MaxBatch)

Menu(c) == IF c <= MaxBatchCallers THEN Calls ELSE SingleCalls

-----------------------------------------------------------------------------
(* Helpers on the state *)

Callers == DOMAIN pc
TaskIdx == DOMAIN tasks

\* threading.Lock: free when no thread holds it
LockAlwaysFree(l) == TRUE

LockFree(l) == l = NoThread

\* The executor starts a queued work item only on one of its max_workers threads
\* A pool whose threads are not given back when their work item has ended
RunningNeverFreed(ts) == {k \in DOMAIN ts : ts[k].st # "queued"}

Running(ts) == {k \in DOMAIN ts : ts[k].st \in {"add_lock", "add_encode"}}
CanStartUnbounded(ts) == TRUE

CanStart(ts) == Cardinality(Running(ts)) < max_workers

FirstQueued(ts, k) ==
    /\ ts[k].st = "queued"
    /\ \A j \in DOMAIN ts : j < k => ts[j].st # "queued"

\* The arguments of the add a caller is inside: its own, or those of the
\* batch entry it has reached in sequential mode
CurArgs(c) == IF cur[c].op = "add" THEN cur[c].a ELSE AddArgs(cur[c].docs[idx[c]])
CurEntry(c) == IF cur[c].op = "add" THEN 0 ELSE idx[c]

LastW(id) == IF id \in DOMAIN lastw THEN lastw[id] ELSE NoTag

\* History: the complete value of an id in a table
Snapshot(tbl, id) ==
    IF id \in DOMAIN tbl
    THEN [title |-> tbl[id].title, url |-> tbl[id].url, summary |-> tbl[id].summary]
    ELSE NoMeta

\* History: every get in progress sees the new value of its id
Observe(tbl) ==
    [g \in DOMAIN pc |->
        IF pc[g] = "get" THEN seen[g] \cup {Snapshot(tbl, cur[g].id)} ELSE seen[g]]

Wrote(id, tag) == [i \in DOMAIN lastw \cup {id} |-> IF i = id THEN tag ELSE lastw[i]]

TasksOf(c) == {k \in TaskIdx : tasks[k].owner = c}

-----------------------------------------------------------------------------
(* Initial states *)

Stored(d) ==
    StoreSet(EmptyTable, AddDefaults(d), [kind |-> "flat", v |-> Embed(d.content)]).table

\* A new store is empty; the callers may also start on a store into which
\* DocP has been added before.
InitTables == {EmptyTable, Stored(DocP)}

InitWith(callers, tables) ==
    /\ table \in tables
    /\ table0 = table
    /\ lock = NoThread
    /\ pc = [c \in callers |-> "idle"]
    /\ cur = [c \in callers |-> [op |-> "idle"]]
    /\ idx = [c \in callers |-> 0]
    /\ result = [c \in callers |-> "pending"]
    /\ ret = [c \in callers |-> NoMeta]
    /\ tasks = <<>>
    /\ seen = [c \in callers |-> {}]
    /\ lastw = EmptyTable
    /\ executor = "running"

Init == InitWith(1..MaxCallers, InitTables)

-----------------------------------------------------------------------------
(* Caller steps *)

\* Where a call begins
Entry(k) ==
    CASE k.op = "add" -> "add_lock"
      [] k.op = "add_batch" ->
            IF k.docs = <<>> THEN "done"
            ELSE IF k.parallel THEN "submit" ELSE "seq"
      [] k.op = "get" -> "get"
      [] k.op = "update" -> "upd_lock"
      [] k.op = "delete" -> "del_lock"
      [] k.op = "delete_batch" -> "delb_lock"
      [] k.op = "count" -> "count"
      [] k.op = "search" -> "search"
      [] k.op = "search_by_vector" -> "sbv"
      [] k.op = "search_streaming" -> "stream_new"
      [] k.op = "add_document_with_vector" -> "addvec"
      [] k.op = "create" -> "new"
      [] k.op = "add_documents" -> IF k.docs = <<>> THEN "done" ELSE "wrap"
      [] k.op = "sorted" -> "sorted"
      [] k.op = "lt" -> "lt"
      [] k.op = "setattr" -> "setattr"
      [] k.op = "to_dict" -> "to_dict"
      [] k.op = "eq" -> "eq"

Call(c, k) ==
    /\ pc[c] = "idle"
    /\ cur' = [cur EXCEPT ![c] = k]
    /\ pc' = [pc EXCEPT ![c] = Entry(k)]
    /\ idx' = [idx EXCEPT ![c] = 1]
    /\ result' = [result EXCEPT ![c] = IF Entry(k) = "done" THEN "ok" ELSE "pending"]
    /\ seen' = [seen EXCEPT ![c] = IF k.op = "get" THEN {Snapshot(table, k.id)} ELSE {}]
    /\ UNCHANGED <<table, table0, lock, ret, tasks, lastw, executor>>

\* `with self._lock:` entered by add, update, delete, delete_batch
Inside(p) ==
    CASE p = "add_lock" -> "add_encode"
      [] p = "upd_lock" -> "upd"
      [] p = "del_lock" -> "del"
      [] p = "delb_lock" -> "delb"

Acquire(c) ==
    /\ pc[c] \in {"add_lock", "upd_lock", "del_lock", "delb_lock"}
    /\ LockFree(lock)
    /\ IF pc[c] = "delb_lock" /\ cur[c].ids = <<>>
       THEN /\ lock' = NoThread
            /\ pc' = [pc EXCEPT ![c] = "done"]
            /\ result' = [result EXCEPT ![c] = "ok"]
       ELSE /\ lock' = CallerId(c)
            /\ pc' = [pc EXCEPT ![c] = Inside(pc[c])]
            /\ UNCHANGED result
    /\ UNCHANGED <<table, table0, cur, idx, ret, tasks, seen, lastw, executor>>

\* The loop of a sequential add_batch going on to the next entry whatever
\* self.add did
AddSetContinue(c, raw) ==
    /\ pc[c] = "add_encode"
    /\ raw \in EncodeOutcomes(CurArgs(c).content)
    /\ LET a == CurArgs(c)
           o == StoreSet(table, a, Flatten(raw))
           last == cur[c].op = "add" \/ idx[c] = Len(cur[c].docs)
       IN  /\ table' = o.table
           /\ lock' = NoThread
           /\ seen' = Observe(o.table)
           /\ lastw' = IF o.result = "ok" THEN Wrote(a.doc_id, Tag(c, CurEntry(c))) ELSE lastw
           /\ IF ~last
              THEN /\ pc' = [pc EXCEPT ![c] = "seq"]
                   /\ idx' = [idx EXCEPT ![c] = @ + 1]
                   /\ UNCHANGED result
              ELSE /\ pc' = [pc EXCEPT ![c] = "done"]
                   /\ result' = [result EXCEPT ![c] = o.result]
                   /\ UNCHANGED idx
    /\ UNCHANGED <<table0, cur, ret, tasks, executor>>

\* self._store.set(...) inside add: the callback returns raw (or raises), the
\* table inserts the record or rejects it, and the lock is released on the way
\* out of the with block, whether set returned or raised.  In a sequential
\* add_batch the loop then goes on to the next entry.
AddSet(c, raw) ==
    /\ pc[c] = "add_encode"
    /\ raw \in EncodeOutcomes(CurArgs(c).content)
    /\ LET a == CurArgs(c)
           o == StoreSet(table, a, Flatten(raw))
           last == cur[c].op = "add" \/ idx[c] = Len(cur[c].docs)
       IN  /\ table' = o.table
           /\ lock' = NoThread
           /\ seen' = Observe(o.table)
           /\ lastw' = IF o.result = "ok" THEN Wrote(a.doc_id, Tag(c, CurEntry(c))) ELSE lastw
           /\ IF o.result = "ok" /\ ~last
              THEN /\ pc' = [pc EXCEPT ![c] = "seq"]
                   /\ idx' = [idx EXCEPT ![c] = @ + 1]
                   /\ UNCHANGED result
              ELSE /\ pc' = [pc EXCEPT ![c] = "done"]
                   /\ result' = [result EXCEPT ![c] = o.result]
                   /\ UNCHANGED idx
    /\ UNCHANGED <<table0, cur, ret, tasks, executor>>

\* One turn of the loop of the parallel branch of add_batch: the entry is
\* checked, then submitted to the executor
BatchSubmit(c) ==
    /\ pc[c] = "submit"
    /\ LET doc == cur[c].docs[idx[c]]
       IN  IF Missing(doc)
           THEN /\ pc' = [pc EXCEPT ![c] = "done"]
                /\ result' = [result EXCEPT ![c] = "ValueError"]
                /\ ret' = [ret EXCEPT ![c] = ValidationReport(cur[c].docs, idx[c])]
                /\ UNCHANGED <<idx, tasks>>
           ELSE /\ tasks' = Append(tasks, [owner |-> c, entry |-> idx[c],
                                           a |-> AddArgs(doc), st |-> "queued"])
                /\ idx' = [idx EXCEPT ![c] = @ + 1]
                /\ pc' = [pc EXCEPT ![c] =
                            IF idx[c] = Len(cur[c].docs) THEN "collect" ELSE "submit"]
                /\ UNCHANGED <<result, ret>>
    /\ UNCHANGED <<table, table0, lock, cur, seen, lastw, executor>>

\* add_batch cancelling, as it raises, the futures that have not started
BatchRaiseCancels(c, k) ==
    /\ pc[c] = "collect"
    /\ k \in TasksOf(c)
    /\ tasks[k].st \notin {"queued", "add_lock", "add_encode", "ok"}
    /\ pc' = [pc EXCEPT ![c] = "done"]
    /\ result' = [result EXCEPT ![c] = tasks[k].st]
    /\ tasks' = [j \in DOMAIN tasks |->
                    IF tasks[j].owner = c /\ tasks[j].st = "queued"
                    THEN [tasks[j] EXCEPT !.st = "cancelled"]
                    ELSE tasks[j]]
    /\ UNCHANGED <<table, table0, lock, cur, idx, ret, seen, lastw, executor>>

\* `for future in as_completed(futures): future.result()`: the first finished
\* future that failed raises its exception out of add_batch ...
BatchRaise(c, k) ==
    /\ pc[c] = "collect"
    /\ k \in TasksOf(c)
    /\ tasks[k].st \notin {"queued", "add_lock", "add_encode", "ok"}
    /\ pc' = [pc EXCEPT ![c] = "done"]
    /\ result' = [result EXCEPT ![c] = tasks[k].st]
    /\ UNCHANGED <<table, table0, lock, cur, idx, ret, tasks, seen, lastw, executor>>

\* ... and add_batch returns once every future has finished without one
BatchReturn(c) ==
    /\ pc[c] = "collect"
    /\ \A k \in TasksOf(c) : tasks[k].st = "ok"
    /\ pc' = [pc EXCEPT ![c] = "done"]
    /\ result' = [result EXCEPT ![c] = "ok"]
    /\ UNCHANGED <<table, table0, lock, cur, idx, ret, tasks, seen, lastw, executor>>

\* One turn of the loop of the sequential branch: the entry is checked, then
\* self.add is called with it
SeqStep(c) ==
    /\ pc[c] = "seq"
    /\ IF Missing(cur[c].docs[idx[c]])
       THEN /\ pc' = [pc EXCEPT ![c] = "done"]
            /\ result' = [result EXCEPT ![c] = "ValueError"]
            /\ ret' = [ret EXCEPT ![c] = ValidationReport(cur[c].docs, idx[c])]
       ELSE /\ pc' = [pc EXCEPT ![c] = "add_lock"]
            /\ UNCHANGED <<result, ret>>
    /\ UNCHANGED <<table, table0, lock, cur, idx, tasks, seen, lastw, executor>>

\* get: self._store.get(doc_id), without the lock
Get(c) ==
    /\ pc[c] = "get"
    /\ ret' = [ret EXCEPT ![c] = StoreGet(table, cur[c].id)]
    /\ pc' = [pc EXCEPT ![c] = "done"]
    /\ result' = [result EXCEPT ![c] = "ok"]
    /\ UNCHANGED <<table, table0, lock, cur, idx, tasks, seen, lastw, executor>>

\* count: self._store.len(), without the lock
Count(c) ==
    /\ pc[c] = "count"
    /\ ret' = [ret EXCEPT ![c] = [n |-> StoreLen(table)]]
    /\ pc' = [pc EXCEPT ![c] = "done"]
    /\ result' = [result EXCEPT ![c] = "ok"]
    /\ UNCHANGED <<table, table0, lock, cur, idx, tasks, seen, lastw, executor>>

\* update without the with block: the lock released only on the way that
\* returns
UpdateHoldsOnError(c) ==
    /\ pc[c] = "upd"
    /\ LET k == cur[c]
           o == StoreUpdate(table, k.id, k.title, k.url, k.summary)
       IN  /\ table' = o.table
           /\ seen' = Observe(o.table)
           /\ lastw' = IF o.result = "ok" THEN Wrote(k.id, Tag(c, 0)) ELSE lastw
           /\ result' = [result EXCEPT ![c] = o.result]
           /\ lock' = IF o.result = "ok" THEN NoThread ELSE lock
    /\ pc' = [pc EXCEPT ![c] = "done"]
    /\ UNCHANGED <<table0, cur, idx, ret, tasks, executor>>

\* update: self._store.update(...) under the lock
Update(c) ==
    /\ pc[c] = "upd"
    /\ LET k == cur[c]
           o == StoreUpdate(table, k.id, k.title, k.url, k.summary)
       IN  /\ table' = o.table
           /\ seen' = Observe(o.table)
           /\ lastw' = IF o.result = "ok" THEN Wrote(k.id, Tag(c, 0)) ELSE lastw
           /\ result' = [result EXCEPT ![c] = o.result]
    /\ lock' = NoThread
    /\ pc' = [pc EXCEPT ![c] = "done"]
    /\ UNCHANGED <<table0, cur, idx, ret, tasks, executor>>

\* delete: self._store.rm(doc_id) under the lock
Delete(c) ==
    /\ pc[c] = "del"
    /\ table' = StoreRm(table, cur[c].id)
    /\ seen' = Observe(table')
    /\ lastw' = IF cur[c].id \in DOMAIN table THEN Wrote(cur[c].id, Tag(c, 0)) ELSE lastw
    /\ lock' = NoThread
    /\ pc' = [pc EXCEPT ![c] = "done"]
    /\ result' = [result EXCEPT ![c] = "ok"]
    /\ UNCHANGED <<table0, cur, idx, ret, tasks, executor>>

\* delete_batch taking the lock for each rm by itself
DeleteBatchRmUnlocked(c) ==
    /\ pc[c] = "delb"
    /\ LET id == cur[c].ids[idx[c]]
           last == idx[c] = Len(cur[c].ids)
       IN  /\ table' = StoreRm(table, id)
           /\ seen' = Observe(table')
           /\ lastw' = IF id \in DOMAIN table THEN Wrote(id, Tag(c, idx[c])) ELSE lastw
           /\ lock' = NoThread
           /\ IF last
              THEN /\ pc' = [pc EXCEPT ![c] = "done"]
                   /\ result' = [result EXCEPT ![c] = "ok"]
                   /\ UNCHANGED idx
              ELSE /\ idx' = [idx EXCEPT ![c] = @ + 1]
                   /\ pc' = [pc EXCEPT ![c] = "delb_lock"]
                   /\ UNCHANGED result
    /\ UNCHANGED <<table0, cur, ret, tasks, executor>>

\* delete_batch: one rm of the loop, the lock held until the loop ends
DeleteBatchRm(c) ==
    /\ pc[c] = "delb"
    /\ LET id == cur[c].ids[idx[c]]
           last == idx[c] = Len(cur[c].ids)
       IN  /\ table' = StoreRm(table, id)
           /\ seen' = Observe(table')
           /\ lastw' = IF id \in DOMAIN table THEN Wrote(id, Tag(c, idx[c])) ELSE lastw
           /\ IF last
              THEN /\ lock' = NoThread
                   /\ pc' = [pc EXCEPT ![c] = "done"]
                   /\ result' = [result EXCEPT ![c] = "ok"]
                   /\ UNCHANGED idx
              ELSE /\ idx' = [idx EXCEPT ![c] = @ + 1]
                   /\ UNCHANGED <<lock, pc, result>>
    /\ UNCHANGED <<table0, cur, ret, tasks, executor>>

-----------------------------------------------------------------------------
(* Executor steps: a worker thread runs self.add for one submitted entry *)

TaskStart(k) ==
    /\ k \in TaskIdx
    /\ FirstQueued(tasks, k)
    /\ CanStart(tasks)
    /\ tasks' = [tasks EXCEPT ![k].st = "add_lock"]
    /\ UNCHANGED <<table, table0, lock, pc, cur, idx, result, ret, seen, lastw, executor>>

TaskAcquire(k) ==
    /\ k \in TaskIdx
    /\ tasks[k].st = "add_lock"
    /\ LockFree(lock)
    /\ lock' = TaskId(k)
    /\ tasks' = [tasks EXCEPT ![k].st = "add_encode"]
    /\ UNCHANGED <<table, table0, pc, cur, idx, result, ret, seen, lastw, executor>>

TaskSet(k, raw) ==
    /\ k \in TaskIdx
    /\ tasks[k].st = "add_encode"
    /\ raw \in EncodeOutcomes(tasks[k].a.content)
    /\ LET a == tasks[k].a
           o == StoreSet(table, a, Flatten(raw))
       IN  /\ table' = o.table
           /\ seen' = Observe(o.table)
           /\ lastw' = IF o.result = "ok"
                       THEN Wrote(a.doc_id, Tag(tasks[k].owner, tasks[k].entry))
                       ELSE lastw
           /\ tasks' = [tasks EXCEPT ![k].st = o.result]
    /\ lock' = NoThread
    /\ UNCHANGED <<table0, pc, cur, idx, result, ret, executor>>

-----------------------------------------------------------------------------
(* The general specification: MaxCallers callers, each making any one call *)

AllOutcomes == UNION {EncodeOutcomes(t) : t \in {"hi", "yo"}}

Next ==
    \/ \E c \in Callers : \E k \in Menu(c) : Call(c, k)
    \/ \E c \in Callers : Acquire(c)
    \/ \E c \in Callers, raw \in AllOutcomes : AddSet(c, raw)
    \/ \E c \in Callers : BatchSubmit(c)
    \/ \E c \in Callers, k \in TaskIdx : BatchRaise(c, k)
    \/ \E c \in Callers : BatchReturn(c)
    \/ \E c \in Callers : SeqStep(c)
    \/ \E c \in Callers : Get(c)
    \/ \E c \in Callers : Count(c)
    \/ \E c \in Callers : Update(c)
    \/ \E c \in Callers : Delete(c)
    \/ \E c \in Callers : DeleteBatchRm(c)
    \/ \E k \in TaskIdx : TaskStart(k)
    \/ \E k \in TaskIdx : TaskAcquire(k)
    \/ \E k \in TaskIdx, raw \in AllOutcomes : TaskSet(k, raw)

Spec == Init /\ [][Next]_vars

-----------------------------------------------------------------------------
(* test_concurrent_writes: NumAddThreads threads, thread i adding its own id,
   with an embedder that works *)

AdderIds == <<"c1", "c2", "c3", "c4", "c5">>
AdderCall(c) ==
    [op |-> "add",
     a |-> [doc_id |-> AdderIds[c], content |-> "yo", title |-> "", url |-> "", summary |-> ""]]

InitAdds == InitWith(1..NumAddThreads, InitTables)

NextAdds ==
    \/ \E c \in Callers : Call(c, AdderCall(c))
    \/ \E c \in Callers : Acquire(c)
    \/ \E c \in Callers, raw \in Healthy("yo") : AddSet(c, raw)

SpecAdds == InitAdds /\ [][NextAdds]_vars

-----------------------------------------------------------------------------
(* The worker pool: every caller makes one parallel add_batch, of any length
   up to MaxPoolBatch *)

PoolCalls ==
    {[op |-> "add_batch", docs |-> b, parallel |-> TRUE] :
        b \in {[i \in 1..n |-> DocQ] : n \in 1..MaxPoolBatch}}

\* In this specification encode returns the vector or raises
PoolOutcomes == {[kind |-> "flat", v |-> Embed("yo")], [kind |-> "raise"]}

InitPool == InitWith(1..MaxCallers, {EmptyTable})

NextPool ==
    \/ \E c \in Callers, k \in PoolCalls : Call(c, k)
    \/ \E c \in Callers : BatchSubmit(c)
    \/ \E c \in Callers, k \in TaskIdx : BatchRaise(c, k)
    \/ \E c \in Callers : BatchReturn(c)
    \/ \E k \in TaskIdx : TaskStart(k)
    \/ \E k \in TaskIdx : TaskAcquire(k)
    \/ \E k \in TaskIdx, raw \in PoolOutcomes : TaskSet(k, raw)

SpecPool == InitPool /\ [][NextPool]_vars

-----------------------------------------------------------------------------
(* Search steps.  A search does not take the lock.  The value a caller gets
   is kept in ret together with the query vector used (q) and, as history,
   the table as it was when the ranker ran (at). *)

\* search: the query is encoded and flattened, the table ranks, the results
\* are returned as they are or as SearchResult objects
Search(c, raw) ==
    /\ pc[c] = "search"
    /\ raw \in EncodeOutcomes(cur[c].query)
    /\ LET e == QueryFlatten(raw)
       IN  IF e.kind = "raise"
           THEN /\ result' = [result EXCEPT ![c] = ProviderError]
                /\ ret' = [ret EXCEPT ![c] = [value |-> <<>>, q |-> <<>>, at |-> table]]
           ELSE LET o == StoreSearch(table, e.v, cur[c].k)
                IN  /\ result' = [result EXCEPT ![c] = o.result]
                    /\ ret' = [ret EXCEPT ![c] =
                                [value |-> IF o.result = "ok"
                                           THEN SearchReturn(o.hits, cur[c].return_objects)
                                           ELSE <<>>,
                                 q |-> e.v, at |-> table]]
    /\ pc' = [pc EXCEPT ![c] = "done"]
    /\ UNCHANGED <<table, table0, lock, cur, idx, tasks, seen, lastw, executor>>

\* search_by_vector: `return self._store.search(vector, k)`
SearchByVector(c) ==
    /\ pc[c] = "sbv"
    /\ LET o == StoreSearch(table, cur[c].vector, cur[c].k)
       IN  /\ result' = [result EXCEPT ![c] = o.result]
           /\ ret' = [ret EXCEPT ![c] =
                       [value |-> o.hits,
                        q |-> cur[c].vector, at |-> table]]
    /\ pc' = [pc EXCEPT ![c] = "done"]
    /\ UNCHANGED <<table, table0, lock, cur, idx, tasks, seen, lastw, executor>>

\* search_streaming is a generator: the call returns it without running any
\* of its body.  The first next() encodes the query, lets the table rank, and
\* runs to the first yield, or to the end if there is no result.
StreamFirst(c, raw) ==
    /\ pc[c] = "stream_new"
    /\ raw \in EncodeOutcomes(cur[c].query)
    /\ LET e == QueryFlatten(raw)
       IN  IF e.kind = "raise"
           THEN /\ result' = [result EXCEPT ![c] = ProviderError]
                /\ ret' = [ret EXCEPT ![c] =
                            [raw |-> <<>>, out |-> <<>>, q |-> <<>>, at |-> table]]
                /\ pc' = [pc EXCEPT ![c] = "done"]
                /\ UNCHANGED idx
           ELSE LET o == StoreSearch(table, e.v, cur[c].k)
                IN  /\ ret' = [ret EXCEPT ![c] =
                                [raw |-> o.hits,
                                 out |-> IF o.hits = <<>> THEN <<>>
                                         ELSE <<StreamObjectOf(o.hits[1])>>,
                                 q |-> e.v, at |-> table]]
                    /\ idx' = [idx EXCEPT ![c] = 2]
                    /\ IF o.result = "ok" /\ o.hits # <<>>
                       THEN /\ pc' = [pc EXCEPT ![c] = "stream_yield"]
                            /\ UNCHANGED result
                       ELSE /\ pc' = [pc EXCEPT ![c] = "done"]
                            /\ result' = [result EXCEPT ![c] = o.result]
    /\ UNCHANGED <<table, table0, lock, cur, tasks, seen, lastw, executor>>

\* A stream that asks the table again at every next()
StreamNextRescan(c) ==
    /\ pc[c] = "stream_yield"
    /\ LET again == StoreSearch(table, ret[c].q, cur[c].k).hits
       IN  IF idx[c] <= Len(again)
           THEN /\ ret' = [ret EXCEPT ![c].raw = again,
                                      ![c].out = Append(@, StreamObjectOf(again[idx[c]]))]
                /\ idx' = [idx EXCEPT ![c] = @ + 1]
                /\ UNCHANGED <<pc, result>>
           ELSE /\ pc' = [pc EXCEPT ![c] = "done"]
                /\ result' = [result EXCEPT ![c] = "ok"]
                /\ UNCHANGED <<ret, idx>>
    /\ UNCHANGED <<table, table0, lock, cur, tasks, seen, lastw, executor>>

\* A later next(): the loop yields the next raw result as a SearchResult, or
\* ends
StreamNext(c) ==
    /\ pc[c] = "stream_yield"
    /\ IF idx[c] <= Len(ret[c].raw)
       THEN /\ ret' = [ret EXCEPT ![c].out = Append(@, StreamObjectOf(ret[c].raw[idx[c]]))]
            /\ idx' = [idx EXCEPT ![c] = @ + 1]
            /\ UNCHANGED <<pc, result>>
       ELSE /\ pc' = [pc EXCEPT ![c] = "done"]
            /\ result' = [result EXCEPT ![c] = "ok"]
            /\ UNCHANGED <<ret, idx>>
    /\ UNCHANGED <<table, table0, lock, cur, tasks, seen, lastw, executor>>

\* add_document_with_vector: `self.store.set_vector(doc_id, vector, title, url)`
AddVector(c) ==
    /\ pc[c] = "addvec"
    /\ LET k == cur[c]
           o == StoreSetVector(table, k.id, k.vector, k.title, k.url)
       IN  /\ table' = o.table
           /\ seen' = Observe(o.table)
           /\ lastw' = IF o.result = "ok" THEN Wrote(k.id, Tag(c, 0)) ELSE lastw
           /\ result' = [result EXCEPT ![c] = o.result]
    /\ pc' = [pc EXCEPT ![c] = "done"]
    /\ UNCHANGED <<table0, lock, cur, idx, ret, tasks, executor>>

-----------------------------------------------------------------------------
(* The search specification: MaxSearchers callers, each making one search or
   one write, on a table that holds some of the records a, b, c *)

SearchIds == {"a", "b", "c"}
TableVectors == {<<1, 0>>, <<0, 1>>}

\* The table after set_vector(i, f[i], i, "U") for every i in the domain of f
VectorTable(f) ==
    [i \in DOMAIN f |-> StoreSetVector(EmptyTable, i, f[i], i, "U").table[i]]

\* The store holds nothing, a, a and b, or a, b and c
SearchDomains == {{i \in SearchIds : IdPos(i) <= n} : n \in 0..Cardinality(SearchIds)}
SearchTables ==
    {VectorTable(f) : f \in UNION {[S -> TableVectors] : S \in SearchDomains}}

InitSearch == InitWith(1..MaxSearchers, SearchTables)

NextSearch ==
    \/ \E c \in Callers : \E k \in SearchMenu(c) : Call(c, k)
    \/ \E c \in Callers : Acquire(c)
    \/ \E c \in Callers, raw \in AllOutcomes : AddSet(c, raw)
    \/ \E c \in Callers : Get(c)
    \/ \E c \in Callers : Update(c)
    \/ \E c \in Callers : Delete(c)
    \/ \E c \in Callers : AddVector(c)
    \/ \E c \in Callers, raw \in AllOutcomes : Search(c, raw)
    \/ \E c \in Callers : SearchByVector(c)
    \/ \E c \in Callers, raw \in AllOutcomes : StreamFirst(c, raw)
    \/ \E c \in Callers : StreamNext(c)

SpecSearch == InitSearch /\ [][NextSearch]_vars

-----------------------------------------------------------------------------
(* Construction and the observers *)

\* VectorStore(dimension): a new, empty table of that dimension
StoreNew(dimension) ==
    IF dimension <= 0
    THEN [result |-> "InvalidDimension"]
    ELSE [result |-> "ok", store |-> [dimension |-> dimension, table |-> EmptyTable]]

\* is_empty()
StoreIsEmpty(tbl) == DOMAIN tbl = {}

\* `if dimension is None: dimension = self.embedder.get_dimension()`; k.given
\* says whether the caller passed a dimension
ChosenDimensionTruthy(k, embedder_dimension) ==
    IF k.given /\ k.dimension # 0 THEN k.dimension ELSE embedder_dimension

ChosenDimension(k, embedder_dimension) ==
    IF k.given THEN k.dimension ELSE embedder_dimension

\* count(), len(store), is_empty(), `doc_id in store`
CountOf(tbl) == StoreLen(tbl)
LenOf(tbl) == CountOf(tbl)
IsEmptyOf(tbl) == StoreIsEmpty(tbl)
ContainsOfTitled(tbl, id) == StoreGet(tbl, id) # NoMeta /\ StoreGet(tbl, id).title # ""

ContainsOf(tbl, id) == StoreGet(tbl, id) # NoMeta

\* DocumentStore(embedder, dimension) with an embedder of dimension Dim: the
\* caller gets the new store, or the exception of the table's constructor
New(c) ==
    /\ pc[c] = "new"
    /\ LET o == StoreNew(ChosenDimension(cur[c], Dim))
       IN  /\ result' = [result EXCEPT ![c] = o.result]
           /\ ret' = [ret EXCEPT ![c] = IF o.result = "ok" THEN o.store ELSE NoMeta]
    /\ pc' = [pc EXCEPT ![c] = "done"]
    /\ UNCHANGED <<table, table0, lock, cur, idx, tasks, seen, lastw, executor>>

NextCreate ==
    \/ \E c \in Callers,
          k \in {[op |-> "create", given |-> TRUE, dimension |-> d] :
                    d \in (0 - 2)..MaxDimension}
                \cup {[op |-> "create", given |-> FALSE, dimension |-> 0]} :
           Call(c, k)
    \/ \E c \in Callers : New(c)

SpecCreate == InitWith(1..MaxCallers, {EmptyTable}) /\ [][NextCreate]_vars

-----------------------------------------------------------------------------
(* SearchResult, the frozen dataclass with slots of search_result.py.  An
   instance is the record of its five fields, as ObjectOf builds it; a dict
   is the sequence of its <<key, value>> pairs in insertion order. *)

\* The fields of the class, in the order of their declaration
FieldNames == {"id", "score", "title", "url", "summary"}

\* r.name = value.  Without frozen=True the assignment goes to the slot of the
\* field, and a name that is no slot has nowhere to go
SetAttrThawed(r, name, value) ==
    IF name \in FieldNames
    THEN [result |-> "ok", obj |-> [r EXCEPT ![name] = value]]
    ELSE [result |-> "AttributeError", obj |-> r]

\* With frozen=True the generated __setattr__ raises for every name
SetAttr(r, name, value) == [result |-> "FrozenInstanceError", obj |-> r]

\* to_dict(): the dict literal of the method
ToDictNoSummary(r) ==
    <<<<"id", r.id>>, <<"score", r.score>>, <<"title", r.title>>, <<"url", r.url>>>>

ToDict(r) ==
    <<<<"id", r.id>>, <<"score", r.score>>, <<"title", r.title>>,
      <<"url", r.url>>, <<"summary", r.summary>>>>

\* The keys of a dict, and the value under one of them
DictKeys(d) == {d[i][1] : i \in DOMAIN d}
DictValue(d, key) == d[CHOOSE i \in DOMAIN d : d[i][1] = key][2]

\* SearchResult(**d): the generated __init__ takes the five fields as
\* keywords, none of them with a default
FromDict(d) ==
    IF DictKeys(d) # FieldNames
    THEN [result |-> "TypeError", obj |-> NoMeta]
    ELSE [result |-> "ok",
          obj |-> [id |-> DictValue(d, "id"), score |-> DictValue(d, "score"),
                   title |-> DictValue(d, "title"), url |-> DictValue(d, "url"),
                   summary |-> DictValue(d, "summary")]]

\* a == b of the generated __eq__: the tuples of the fields are compared; the
\* scores are numbers and compare by value
SearchResultEq(a, b) ==
    /\ a.id = b.id
    /\ ScoreEq(a.score, b.score)
    /\ a.title = b.title
    /\ a.url = b.url
    /\ a.summary = b.summary

\* The instances the callers hold
SampleResults ==
    {[id |-> "a", score |-> s, title |-> t, url |-> "U", summary |-> "S1"] :
        s \in {[num |-> 1, den |-> 2], [num |-> 2, den |-> 4]}, t \in {"", "A"}}

\* What a caller may try to assign: a text to any attribute, a field or not,
\* or a number to the score
SetAttrCalls ==
    {[op |-> "setattr", obj |-> r, name |-> n, value |-> "Modified"] :
        r \in SampleResults, n \in (FieldNames \ {"score"}) \cup {"vector"}}

SetScoreCalls ==
    {[op |-> "setattr", obj |-> r, name |-> "score", value |-> [num |-> 0, den |-> 1]] :
        r \in SampleResults}


\* results[0].title = "Modified"
SetAttrStep(c) ==
    /\ pc[c] = "setattr"
    /\ LET o == SetAttr(cur[c].obj, cur[c].name, cur[c].value)
       IN  /\ result' = [result EXCEPT ![c] = o.result]
           /\ ret' = [ret EXCEPT ![c] = [obj |-> o.obj]]
    /\ pc' = [pc EXCEPT ![c] = "done"]
    /\ UNCHANGED <<table, table0, lock, cur, idx, tasks, seen, lastw, executor>>

\* d = r.to_dict(), then SearchResult(**d)
ToDictStep(c) ==
    /\ pc[c] = "to_dict"
    /\ LET d == ToDict(cur[c].obj)
       IN  ret' = [ret EXCEPT ![c] = [dict |-> d, rebuilt |-> FromDict(d)]]
    /\ result' = [result EXCEPT ![c] = "ok"]
    /\ pc' = [pc EXCEPT ![c] = "done"]
    /\ UNCHANGED <<table, table0, lock, cur, idx, tasks, seen, lastw, executor>>

\* r == other
EqStep(c) ==
    /\ pc[c] = "eq"
    /\ ret' = [ret EXCEPT ![c] = [eq |-> SearchResultEq(cur[c].obj, cur[c].other)]]
    /\ result' = [result EXCEPT ![c] = "ok"]
    /\ pc' = [pc EXCEPT ![c] = "done"]
    /\ UNCHANGED <<table, table0, lock, cur, idx, tasks, seen, lastw, executor>>

NextValue ==
    \/ \E c \in Callers, k \in SetAttrCalls : Call(c, k)
    \/ \E c \in Callers, k \in SetScoreCalls : Call(c, k)
    \/ \E c \in Callers,
          k \in {[op |-> "to_dict", obj |-> r] : r \in SampleResults}
                \cup {[op |-> "eq", obj |-> r, other |-> o] :
                        r \in SampleResults, o \in SampleResults} :
           Call(c, k)
    \/ \E c \in Callers : SetAttrStep(c)
    \/ \E c \in Callers : ToDictStep(c)
    \/ \E c \in Callers : EqStep(c)

SpecValue == InitWith(1..MaxCallers, {EmptyTable}) /\ [][NextValue]_vars

-----------------------------------------------------------------------------
(* The lifetime of the worker pool.  DocumentStore has no close or shutdown
   method and is no context manager; the executor is shut down in __del__,
   which the interpreter runs when nothing refers to the store any more: no
   caller that has yet to make or finish its call, no work item of the pool
   that has yet to run self.add. *)

Unreferenced ==
    /\ \A c \in Callers : pc[c] = "done"
    /\ \A k \in TaskIdx : tasks[k].st \notin {"queued", "add_lock", "add_encode"}

\* __del__: `self._executor.shutdown(wait=True)`
Finalize ==
    /\ executor = "running"
    /\ Unreferenced
    /\ executor' = "shutdown"
    /\ UNCHANGED <<table, table0, lock, pc, cur, idx, result, ret, tasks, seen, lastw>>

NextLifetime ==
    \/ \E c \in Callers,
          k \in {[op |-> "add", a |-> AddDefaults(DocQ)]}
                \cup {[op |-> "add_batch", docs |-> b, parallel |-> TRUE] :
                        b \in {[i \in 1..n |-> DocQ] : n \in 1..MaxBatch}} :
           Call(c, k)
    \/ \E c \in Callers : Acquire(c)
    \/ \E c \in Callers, raw \in PoolOutcomes : AddSet(c, raw)
    \/ \E c \in Callers : BatchSubmit(c)
    \/ \E c \in Callers, k \in TaskIdx : BatchRaise(c, k)
    \/ \E c \in Callers : BatchReturn(c)
    \/ \E k \in TaskIdx : TaskStart(k)
    \/ \E k \in TaskIdx : TaskAcquire(k)
    \/ \E k \in TaskIdx, raw \in PoolOutcomes : TaskSet(k, raw)
    \/ Finalize

SpecLifetime == InitPool /\ [][NextLifetime]_vars

\* The threads run: a worker thread of the pool that can take a step takes it,
\* and a caller inside the lock comes out of its add
WorkerStep ==
    \/ \E k \in TaskIdx : TaskStart(k)
    \/ \E k \in TaskIdx : TaskAcquire(k)
    \/ \E k \in TaskIdx, raw \in PoolOutcomes : TaskSet(k, raw)

CallerInLock == \E c \in Callers, raw \in PoolOutcomes : AddSet(c, raw)

SpecLifetimeFair ==
    SpecLifetime /\ WF_vars(WorkerStep) /\ WF_vars(CallerInLock)

-----------------------------------------------------------------------------
(* The writers alone: every caller makes one add, update, delete or
   delete_batch, and the threads run *)

\* A caller inside the lock takes the step that brings it out
WriterStep ==
    \/ \E c \in Callers, raw \in AllOutcomes : AddSet(c, raw)
    \/ \E c \in Callers : Update(c)
    \/ \E c \in Callers : Delete(c)
    \/ \E c \in Callers : DeleteBatchRm(c)

\* A caller blocked on the lock gets it once it is free
LockStep == \E c \in Callers : Acquire(c)

NextWrites ==
    \/ \E c \in Callers,
          k \in AddCalls \cup UpdateCalls \cup DeleteCalls \cup DeleteBatchCalls :
           Call(c, k)
    \/ LockStep
    \/ WriterStep

SpecWritesFair ==
    Init /\ [][NextWrites]_vars /\ WF_vars(LockStep) /\ WF_vars(WriterStep)

-----------------------------------------------------------------------------
(* A batch larger than the pool, next to other writers: the first caller
   makes a parallel add_batch of up to MaxBigBatch entries, the others an
   add, an update, a delete or a small parallel add_batch *)

MaxBigBatch == 5

BigBatchCalls ==
    {[op |-> "add_batch", docs |-> [i \in 1..n |-> DocQ], parallel |-> TRUE] :
        n \in {1, MaxBigBatch}}

BesideCalls ==
    {[op |-> "add", a |-> AddDefaults(DocQ)],
     [op |-> "add_batch", docs |-> <<DocQ>>, parallel |-> TRUE]}
    \cup {k \in UpdateCalls : k.id = "q" /\ k.kw = [title |-> "T"]}
    \cup {k \in DeleteCalls : k.id = "q"}

\* The thread inside add_batch takes its next step
BatchStep ==
    \/ \E c \in Callers : BatchSubmit(c)
    \/ \E c \in Callers, k \in TaskIdx : BatchRaise(c, k)
    \/ \E c \in Callers : BatchReturn(c)

NextBig ==
    \/ \E c \in Callers : \E k \in (IF c = 1 THEN BigBatchCalls ELSE BesideCalls) : Call(c, k)
    \/ BatchStep
    \/ WorkerStep
    \/ LockStep
    \/ CallerInLock
    \/ \E c \in Callers : Update(c)
    \/ \E c \in Callers : Delete(c)

SpecBigFair ==
    /\ InitPool /\ [][NextBig]_vars
    /\ WF_vars(BatchStep) /\ WF_vars(WorkerStep)
    /\ WF_vars(LockStep) /\ WF_vars(WriterStep)

-----------------------------------------------------------------------------
(* add_batch on entries whose id or content is there but empty *)

DocEmptyContent == [id |-> "q", content |-> ""]

\* The entries of the batches: an id or a content that is '' or None, a key
\* that is not there, and a valid entry

NextEmpty ==
    \/ \E c \in Callers,
          k \in BatchCalls({[id |-> "", content |-> "hi"], [id |-> None, content |-> "hi"],
                            DocEmptyContent, [id |-> "q", content |-> None],
                            [content |-> "hi"], DocNoContent, DocQ}, MaxBatch) :
           Call(c, k)
    \/ \E c \in Callers : Acquire(c)
    \/ \E c \in Callers, raw \in PoolOutcomes : AddSet(c, raw)
    \/ BatchStep
    \/ \E c \in Callers : SeqStep(c)
    \/ WorkerStep

SpecEmpty == InitWith(1..MaxBatchCallers, InitTables) /\ [][NextEmpty]_vars

-----------------------------------------------------------------------------
(* VectorStoreWrapper.add_documents.  The wrapper takes no lock.  Its
   add_document calls set with five arguments, the callback in the fifth
   place, where DocumentStore.add passes the summary; whether the table takes
   that form of the call depends on the build of tf_rust, so both outcomes
   are drawn: the record is stored with an empty summary, or the call is
   refused with a TypeError before anything is embedded. *)

\* add_document(doc_id, content, title, url) as add_documents calls it
WrapperArgs(doc) ==
    [doc_id  |-> doc.id,
     content |-> doc.content,
     title   |-> DocGet(doc, "title", ""),
     url     |-> DocGet(doc, "url", ""),
     summary |-> ""]

\* self.store.set(doc_id, content, title, url, embedding_callback)
StoreSetFive(tbl, a, e, form) ==
    IF form = "five_arguments_refused"
    THEN [table |-> tbl, result |-> "TypeError"]
    ELSE StoreSet(tbl, a, e)

AddDocumentsCalls ==
    {[op |-> "add_documents", docs |-> b] : b \in Batches({DocP, DocQ, DocNoContent, DocEmptyContent}, MaxBatch)}

\* A check of the whole list before the first document is added
WrapCheckAll(c) ==
    /\ pc[c] = "wrap"
    /\ IF \E i \in idx[c]..Len(cur[c].docs) : Missing(cur[c].docs[i])
       THEN /\ pc' = [pc EXCEPT ![c] = "done"]
            /\ result' = [result EXCEPT ![c] = "ValueError"]
       ELSE /\ pc' = [pc EXCEPT ![c] = "wrap_set"]
            /\ UNCHANGED result
    /\ UNCHANGED <<table, table0, lock, cur, idx, ret, tasks, seen, lastw, executor>>

\* One turn of the loop up to the call of add_document: the document is
\* checked
WrapCheck(c) ==
    /\ pc[c] = "wrap"
    /\ IF Missing(cur[c].docs[idx[c]])
       THEN /\ pc' = [pc EXCEPT ![c] = "done"]
            /\ result' = [result EXCEPT ![c] = "ValueError"]
       ELSE /\ pc' = [pc EXCEPT ![c] = "wrap_set"]
            /\ UNCHANGED result
    /\ UNCHANGED <<table, table0, lock, cur, idx, ret, tasks, seen, lastw, executor>>

\* add_document: the table calls the callback and inserts, or raises; then the
\* loop goes on
WrapSet(c, raw, form) ==
    /\ pc[c] = "wrap_set"
    /\ raw \in EncodeOutcomes(cur[c].docs[idx[c]].content)
    /\ LET a == WrapperArgs(cur[c].docs[idx[c]])
           o == StoreSetFive(table, a, Flatten(raw), form)
           last == idx[c] = Len(cur[c].docs)
       IN  /\ table' = o.table
           /\ seen' = Observe(o.table)
           /\ lastw' = IF o.result = "ok" THEN Wrote(a.doc_id, Tag(c, idx[c])) ELSE lastw
           /\ IF o.result = "ok" /\ ~last
              THEN /\ pc' = [pc EXCEPT ![c] = "wrap"]
                   /\ idx' = [idx EXCEPT ![c] = @ + 1]
                   /\ UNCHANGED result
              ELSE /\ pc' = [pc EXCEPT ![c] = "done"]
                   /\ result' = [result EXCEPT ![c] = o.result]
                   /\ UNCHANGED idx
    /\ UNCHANGED <<table0, lock, cur, ret, tasks, executor>>

NextWrapper ==
    \/ \E c \in Callers, k \in AddDocumentsCalls : Call(c, k)
    \/ \E c \in Callers : WrapCheck(c)
    \/ \E c \in Callers, raw \in AllOutcomes, form \in {"five_arguments_taken", "five_arguments_refused"} : WrapSet(c, raw, form)

SpecWrapper == Init /\ [][NextWrapper]_vars

-----------------------------------------------------------------------------
(* The ordering of SearchResult.  A score is a float: a number num/den, or
   NaN, written 0/0, which compares false with everything. *)

MaxSort == 3

NaN == [num |-> 0, den |-> 0]
IsNumber(s) == s.den # 0

\* s > t on floats
FloatGreater(s, t) == IsNumber(s) /\ IsNumber(t) /\ ScoreLess(t, s)

\* An ordering by ascending score
LtAscending(a, b) == FloatGreater(b.score, a.score)

\* __lt__: `return self.score > other.score`
Lt(a, b) == FloatGreater(a.score, b.score)

\* The place of x in the sorted list v, found from the right: x goes before
\* the elements it is less than, and after the first one it is not less than
RECURSIVE InsertAt(_, _, _)
InsertAt(v, x, i) ==
    IF i = 0 \/ ~Lt(x, v[i])
    THEN SubSeq(v, 1, i) \o <<x>> \o SubSeq(v, i + 1, Len(v))
    ELSE InsertAt(v, x, i - 1)

\* sorted(l) with the default ordering: a stable sort that compares with <
\* only, here by insertion
RECURSIVE SortedPrefix(_, _)
SortedPrefix(l, n) ==
    IF n = 0 THEN <<>>
    ELSE LET v == SortedPrefix(l, n - 1)
         IN  InsertAt(v, l[n], Len(v))

Sorted(l) == SortedPrefix(l, Len(l))

\* The result at position i of a list has the i-th id
OrderLists ==
    UNION {{[i \in 1..n |-> [id |-> IdOrder[i], score |-> f[i],
                            title |-> "", url |-> "", summary |-> ""]] :
                f \in [1..n -> {[num |-> 1, den |-> 2], [num |-> 2, den |-> 4],
                                [num |-> 1, den |-> 1], NaN}]} : n \in 0..MaxSort}

SortedStep(c) ==
    /\ pc[c] = "sorted"
    /\ ret' = [ret EXCEPT ![c] = [sorted |-> Sorted(cur[c].list)]]
    /\ result' = [result EXCEPT ![c] = "ok"]
    /\ pc' = [pc EXCEPT ![c] = "done"]
    /\ UNCHANGED <<table, table0, lock, cur, idx, tasks, seen, lastw, executor>>

\* a < b and b < a
LtStep(c) ==
    /\ pc[c] = "lt"
    /\ ret' = [ret EXCEPT ![c] = [lt |-> Lt(cur[c].obj, cur[c].other),
                                  gt |-> Lt(cur[c].other, cur[c].obj)]]
    /\ result' = [result EXCEPT ![c] = "ok"]
    /\ pc' = [pc EXCEPT ![c] = "done"]
    /\ UNCHANGED <<table, table0, lock, cur, idx, tasks, seen, lastw, executor>>

NextOrder ==
    \/ \E c \in Callers,
          k \in {[op |-> "sorted", list |-> l] : l \in OrderLists}
                \cup {[op |-> "lt", obj |-> l[1], other |-> l[2]] :
                        l \in {m \in OrderLists : Len(m) = 2}}
                \cup {[op |-> "lt", obj |-> l[1], other |-> l[1]] :
                        l \in {m \in OrderLists : Len(m) = 1}} :
           Call(c, k)
    \/ \E c \in Callers : SortedStep(c)
    \/ \E c \in Callers : LtStep(c)

SpecOrder == InitWith(1..MaxCallers, {EmptyTable}) /\ [][NextOrder]_vars

-----------------------------------------------------------------------------
(* Properties *)

Unfinished == {"queued", "add_lock", "add_encode"}
EmbeddingFailures == {"EmbeddingError", "DimensionMismatch"}

IsBatch(c) == cur[c].op = "add_batch"

\* An embedding call was issued for an entry of the batch of caller c
EmbedIssued(c) ==
    IF cur[c].parallel
    THEN \E k \in TasksOf(c) : tasks[k].st \notin {"queued", "add_lock"}
    ELSE idx[c] > 1 \/ pc[c] = "add_encode"

\* An entry of the batch of caller c has been handed to the executor
Dispatched(c) == TasksOf(c) # {}

\* The table holds a write made for the batch of caller c
Mutated(c) == \E id \in DOMAIN lastw : lastw[id][1] = c

\* C1: when add_batch has failed with the validation error, no entry of the
\* batch has been embedded or dispatched and the table holds no write of the
\* batch, whatever the position of the invalid entry.
C1_ValidationAllOrNothing ==
    \A c \in Callers :
        (IsBatch(c) /\ result[c] = "ValueError")
            => ~EmbedIssued(c) /\ ~Dispatched(c) /\ ~Mutated(c)

\* C2: when a parallel add_batch has returned or has raised an embedding
\* failure, no task of that batch is still queued or running.
C2_RaisesAfterAllFinished ==
    \A c \in Callers :
        (IsBatch(c) /\ cur[c].parallel /\ pc[c] = "done"
            /\ result[c] \in EmbeddingFailures \cup {"ok"})
            => \A k \in TasksOf(c) : tasks[k].st \notin Unfinished

\* C3: in test_concurrent_writes every add that has ended has ended without
\* error, the count is the initial count plus the number of adds ended, and
\* each of their ids is retrievable.
C3_ConcurrentAdds ==
    LET ended == {c \in Callers : pc[c] = "done"}
    IN  /\ \A c \in ended : result[c] = "ok"
        /\ StoreLen(table) = StoreLen(table0) + Cardinality(ended)
        /\ \A c \in ended : StoreGet(table, AdderIds[c]) # NoMeta

C3_Witness ==
    /\ \A c \in Callers : pc[c] = "done" /\ cur[c].op = "add"
    /\ Cardinality(Callers) = NumAddThreads
    /\ StoreLen(table0) > 0

\* The threads inside a table-mutating step
Writing ==
    {CallerId(c) : c \in {x \in Callers : pc[x] \in {"add_encode", "upd", "del", "delb"}}}
    \cup {TaskId(k) : k \in {j \in TaskIdx : tasks[j].st = "add_encode"}}

\* The threads waiting for the lock
Waiting ==
    {CallerId(c) : c \in {x \in Callers : pc[x] \in {"add_lock", "upd_lock", "del_lock", "delb_lock"}}}
    \cup {TaskId(k) : k \in {j \in TaskIdx : tasks[j].st = "add_lock"}}

\* C4: at most one thread is inside a table-mutating step, and it is the one
\* that holds the lock.
C4_WritersExclusive ==
    /\ Cardinality(Writing) <= 1
    /\ \A t \in Writing : lock = t

C4_Witness ==
    /\ \E k \in TaskIdx : TaskId(k) \in Writing
    /\ \E c \in Callers : CallerId(c) \in Waiting /\ cur[c].op \in {"update", "delete", "delete_batch"}

\* C5: no read is in progress while a writer holds the lock.
C5_ReadersExcludeWriters ==
    \A c \in Callers : pc[c] \in {"get", "count"} => lock = NoThread

C7_EmbeddingOutsideLock ==
    \A k \in TaskIdx : tasks[k].st = "add_encode" => lock # TaskId(k)

\* What the code gives instead of C7: never two entries inside encode
OneEmbeddingAtATime ==
    Cardinality({k \in TaskIdx : tasks[k].st = "add_encode"}) <= 1

\* The metadata of a batch entry, absent fields as empty strings
OwnMeta(doc) ==
    [title |-> DocGet(doc, "title", ""),
     url |-> DocGet(doc, "url", ""),
     summary |-> DocGet(doc, "summary", "")]

\* The add of entry i of the batch of caller c has completed successfully
Completed(c, i) ==
    IF cur[c].parallel
    THEN \E k \in TasksOf(c) : tasks[k].entry = i /\ tasks[k].st = "ok"
    ELSE i < idx[c]

Survives(c, i) ==
    LET doc == cur[c].docs[i]
    IN  /\ doc.id \in DOMAIN table
        /\ Snapshot(table, doc.id) = OwnMeta(doc)

\* C8: after add_batch has raised an embedding failure, every entry whose add
\* had completed, and whose id nobody has written since, is in the table with
\* its own metadata.
C8_NoRollback ==
    \A c \in Callers :
        (IsBatch(c) /\ pc[c] = "done" /\ result[c] \in EmbeddingFailures)
            => \A i \in 1..Len(cur[c].docs) :
                    (Completed(c, i) /\ LastW(cur[c].docs[i].id) = Tag(c, i))
                        => Survives(c, i)

C8_Witness ==
    \E c \in Callers :
        /\ IsBatch(c) /\ pc[c] = "done" /\ result[c] \in EmbeddingFailures
        /\ \E i \in 1..Len(cur[c].docs) :
                Completed(c, i) /\ LastW(cur[c].docs[i].id) = Tag(c, i) /\ Survives(c, i)

\* C9: the step in which an add ends with an embedding failure leaves the
\* table as it was.
C9_FailedAddKeepsTable ==
    [][ /\ \A c \in Callers :
              (pc[c] = "add_encode" /\ pc'[c] = "done" /\ result'[c] # "ok")
                  => table' = table
        /\ \A k \in TaskIdx :
              (tasks[k].st = "add_encode" /\ tasks'[k].st # "ok")
                  => table' = table ]_vars

C9_Witness ==
    \E c \in Callers :
        /\ cur[c].op = "add" /\ pc[c] = "done" /\ result[c] \in EmbeddingFailures
        /\ cur[c].a.doc_id \in DOMAIN table0
        /\ table = table0

\* C10: never more than max_workers tasks run at once.
C10_PoolBounded == Cardinality(Running(tasks)) <= max_workers

C10_Witness ==
    /\ Cardinality(Running(tasks)) = max_workers
    /\ \E k \in TaskIdx : tasks[k].st = "queued"
    /\ \E c \in Callers : Cardinality(TasksOf(c)) = MaxPoolBatch

-----------------------------------------------------------------------------
(* update *)

MetaFields == {"title", "url", "summary"}

\* The caller whose update is the step from the current state to the next
Updating(c) == pc[c] = "upd" /\ pc'[c] = "done"

\* C11: an update of a present id sets exactly the fields the caller passed
\* and leaves the record's vector, the fields it did not pass, and every other
\* record as they were.
C11_UpdateMerges ==
    [][\A c \in Callers :
         (Updating(c) /\ cur[c].id \in DOMAIN table) =>
            /\ result'[c] = "ok"
            /\ DOMAIN table' = DOMAIN table
            /\ table'[cur[c].id].vector = table[cur[c].id].vector
            /\ \A f \in MetaFields :
                  table'[cur[c].id][f] =
                     IF f \in DOMAIN cur[c].kw
                     THEN cur[c].kw[f]
                     ELSE table[cur[c].id][f]
            /\ \A i \in DOMAIN table \ {cur[c].id} : table'[i] = table[i]]_vars

\* DocP was added with title "A" and summary "S1"; update("p", summary="S2")
\* has left title "A" and set summary "S2"
C11_Witness ==
    \E c \in Callers :
        /\ pc[c] = "done" /\ cur[c].op = "update" /\ result[c] = "ok"
        /\ cur[c].id = "p" /\ cur[c].kw = [summary |-> "S2"]
        /\ table0 = Stored(DocP)
        /\ "p" \in DOMAIN table
        /\ Snapshot(table, "p") = [title |-> "A", url |-> "", summary |-> "S2"]
        /\ table["p"].vector = table0["p"].vector

\* C12: an update of an id that is not in the table fails with NotFound and
\* leaves the table as it was.
C12_UpdateAbsentNotFound ==
    [][\A c \in Callers :
         (Updating(c) /\ cur[c].id \notin DOMAIN table) =>
            /\ result'[c] = "NotFound"
            /\ table' = table]_vars

\* update("q", ...) on a store that never held q has failed
C12_Witness ==
    \E c \in Callers :
        /\ pc[c] = "done" /\ cur[c].op = "update" /\ cur[c].id = "q"
        /\ result[c] = "NotFound"
        /\ LastW("q") = NoTag
        /\ "q" \notin DOMAIN table0 /\ "q" \notin DOMAIN table

-----------------------------------------------------------------------------
(* delete *)

\* The caller whose delete is the step from the current state to the next
Deleting(c) == pc[c] = "del" /\ pc'[c] = "done"

\* C13: a delete raises nothing, leaves its id out of the table and every
\* other record as it was; the count drops by one if the id was present and
\* the table does not change if it was absent.
C13_DeleteIdempotent ==
    [][\A c \in Callers :
         Deleting(c) =>
            /\ result'[c] = "ok"
            /\ cur[c].id \notin DOMAIN table'
            /\ \A i \in DOMAIN table \ {cur[c].id} :
                  i \in DOMAIN table' /\ table'[i] = table[i]
            /\ StoreLen(table') =
                  StoreLen(table) - (IF cur[c].id \in DOMAIN table THEN 1 ELSE 0)
            /\ cur[c].id \notin DOMAIN table => table' = table]_vars

\* Two deletes of p, one after the other, on a store that held p: both have
\* returned, only one of them removed the record
C13_Witness ==
    \E c, d \in Callers :
        /\ c # d
        /\ cur[c] = [op |-> "delete", id |-> "p"] /\ cur[d] = cur[c]
        /\ pc[c] = "done" /\ pc[d] = "done"
        /\ result[c] = "ok" /\ result[d] = "ok"
        /\ "p" \in DOMAIN table0 /\ "p" \notin DOMAIN table
        /\ LastW("p") = Tag(c, 0)

-----------------------------------------------------------------------------
(* add as an upsert *)

\* What the table must look like after a successful add of id with metadata
\* meta and content text
Upserted(id, meta, text) ==
    /\ id \in DOMAIN table'
    /\ Snapshot(table', id) = meta
    /\ table'[id].vector = Embed(text)
    /\ \A i \in DOMAIN table \ {id} : i \in DOMAIN table' /\ table'[i] = table[i]
    /\ StoreLen(table') = StoreLen(table) + (IF id \in DOMAIN table THEN 0 ELSE 1)

\* The document a caller is adding, as it was handed in
CurDoc(c) ==
    IF cur[c].op = "add"
    THEN [id |-> cur[c].a.doc_id, content |-> cur[c].a.content,
          title |-> cur[c].a.title, url |-> cur[c].a.url, summary |-> cur[c].a.summary]
    ELSE cur[c].docs[idx[c]]

\* C14: a successful add of an absent id raises the count by one; a
\* successful add of a present id leaves the count as it is and replaces the
\* record, vector and metadata, by those of this add.  Other records are not
\* touched.
C14_AddUpserts ==
    [][ /\ \A c \in Callers :
              (pc[c] = "add_encode" /\ (pc'[c] = "seq" \/ result'[c] = "ok"))
                  => Upserted(CurDoc(c).id, OwnMeta(CurDoc(c)), CurDoc(c).content)
        /\ \A k \in TaskIdx :
              (tasks[k].st = "add_encode" /\ tasks'[k].st = "ok")
                  => LET doc == cur[tasks[k].owner].docs[tasks[k].entry]
                     IN  Upserted(doc.id, OwnMeta(doc), doc.content) ]_vars

\* Two adds of p with different metadata on an empty store: one record, with
\* the metadata of the add that wrote last
C14_Witness ==
    \E c, d \in Callers :
        /\ c # d
        /\ cur[c].op = "add" /\ cur[d].op = "add"
        /\ cur[c].a.doc_id = "p" /\ cur[d].a.doc_id = "p"
        /\ Meta(cur[c].a) # Meta(cur[d].a)
        /\ result[c] = "ok" /\ result[d] = "ok"
        /\ table0 = EmptyTable
        /\ StoreLen(table) = 1
        /\ LastW("p") = Tag(d, 0)
        /\ Snapshot(table, "p") = Meta(cur[d].a)

-----------------------------------------------------------------------------
(* concurrent adds of one id *)

\* The arguments of the add whose thread holds the lock
HolderArgs ==
    IF lock[1] = "caller" THEN CurArgs(lock[2]) ELSE tasks[lock[2]].a

\* The lock is held by a thread that is inside an add
HolderAdding ==
    /\ lock # NoThread
    /\ IF lock[1] = "caller"
       THEN pc[lock[2]] = "add_encode"
       ELSE tasks[lock[2]].st = "add_encode"

\* The step from the current state to the next is the set of a successful add
SetStep ==
    \/ \E c \in Callers : pc[c] = "add_encode" /\ (pc'[c] = "seq" \/ result'[c] = "ok")
    \/ \E k \in TaskIdx : tasks[k].st = "add_encode" /\ tasks'[k].st = "ok"

\* The writer recorded by tag is an add, direct or as a batch entry
AddTag(tag) == tag # NoTag /\ cur[tag[1]].op \in {"add", "add_batch"}
TagMeta(tag) ==
    IF cur[tag[1]].op = "add"
    THEN Meta(cur[tag[1]].a)
    ELSE OwnMeta(cur[tag[1]].docs[tag[2]])

\* Every id last written by an add holds the whole metadata of that add
LastAddWins ==
    \A id \in DOMAIN lastw :
        AddTag(lastw[id]) => id \in DOMAIN table /\ Snapshot(table, id) = TagMeta(lastw[id])

\* C16: the record a successful add writes is the one of the thread that
\* holds the lock, which is the thread that acquired it last; and an id whose
\* last write was an add holds one record with the whole metadata of that
\* add, whatever the order in which the adds were called.
C16_LastAcquirerWins ==
    [][ /\ SetStep =>
              /\ HolderAdding
              /\ HolderArgs.doc_id \in DOMAIN table'
              /\ Snapshot(table', HolderArgs.doc_id) = Meta(HolderArgs)
              /\ \A i \in DOMAIN table \ {HolderArgs.doc_id} :
                    i \in DOMAIN table' /\ table'[i] = table[i]
        /\ LastAddWins' ]_vars

\* Two callers have added p, with different metadata, to a store that held
\* p already; the one that took the lock first has been overwritten
C16_Witness ==
    \E c, d \in Callers :
        /\ c # d
        /\ cur[c].op = "add" /\ cur[d].op = "add"
        /\ cur[c].a.doc_id = "p" /\ cur[d].a.doc_id = "p"
        /\ pc[c] = "done" /\ pc[d] = "done"
        /\ result[c] = "ok" /\ result[d] = "ok"
        /\ table0 = Stored(DocP)
        /\ DOMAIN table = {"p"}
        /\ LastW("p") = Tag(d, 0)
        /\ Snapshot(table, "p") = Meta(cur[d].a)
        /\ Snapshot(table, "p") # Meta(cur[c].a)

-----------------------------------------------------------------------------
(* search *)

ResultFields == {"id", "score", "title", "url", "summary"}

\* The caller has made a search or search_by_vector that has returned
Searched(c) ==
    /\ pc[c] = "done"
    /\ cur[c].op \in {"search", "search_by_vector"}
    /\ result[c] = "ok"

\* The caller is consuming, or has consumed, a search_streaming
Streaming(c) ==
    /\ cur[c].op = "search_streaming"
    /\ pc[c] = "stream_yield" \/ (pc[c] = "done" /\ result[c] = "ok")

\* C15: every stored vector has length Dim; an add that ends with
\* DimensionMismatch leaves the table as it was; add_document_with_vector and
\* search_by_vector with a vector of another length, and a search whose
\* encoded query has another length, end with DimensionMismatch.
C15_DimensionInvariant ==
    [][ /\ \A id \in DOMAIN table : Len(table[id].vector) = Dim
        /\ \A id \in DOMAIN table' : Len(table'[id].vector) = Dim
        /\ \A c \in Callers :
              /\ (pc[c] \in {"add_encode", "addvec"} /\ pc'[c] = "done"
                    /\ result'[c] = "DimensionMismatch")
                    => table' = table
              /\ (pc[c] = "addvec" /\ pc'[c] = "done" /\ Len(cur[c].vector) # Dim)
                    => result'[c] = "DimensionMismatch"
              /\ (pc[c] = "sbv" /\ pc'[c] = "done" /\ Len(cur[c].vector) # Dim)
                    => result'[c] = "DimensionMismatch"
              /\ (pc[c] \in {"search", "stream_new"} /\ pc'[c] = "done"
                    /\ result'[c] # ProviderError /\ Len(ret'[c].q) # Dim)
                    => result'[c] = "DimensionMismatch" ]_vars

\* A search_by_vector and an add_document_with_vector, each with a vector of
\* length 1, have both failed, and the table is as it was
C15_Witness ==
    \E c, d \in Callers :
        /\ cur[c].op = "search_by_vector" /\ Len(cur[c].vector) # Dim
        /\ pc[c] = "done" /\ result[c] = "DimensionMismatch"
        /\ cur[d].op = "add_document_with_vector" /\ Len(cur[d].vector) # Dim
        /\ pc[d] = "done" /\ result[d] = "DimensionMismatch"
        /\ table = table0 /\ StoreLen(table) = 3

\* C17: a search or search_by_vector with a query vector of length Dim
\* returns, and returns exactly min(k, count) results, count being the number
\* of records when the table was ranked; on an empty table that is the empty
\* sequence.
C17_BoundedOutput ==
    \A c \in Callers :
        (/\ pc[c] = "done"
         /\ cur[c].op \in {"search", "search_by_vector"}
         /\ Len(ret[c].q) = Dim)
            => /\ result[c] = "ok"
               /\ Len(ret[c].value) = Min(cur[c].k, StoreLen(ret[c].at))
               /\ ret[c].at = EmptyTable => ret[c].value = <<>>

\* A search for SearchResult objects with k = 2 on three records has returned
\* two
C17_Witness ==
    \E c \in Callers :
        /\ Searched(c) /\ cur[c].op = "search" /\ cur[c].return_objects
        /\ cur[c].k = 2 /\ StoreLen(ret[c].at) = 3
        /\ Len(ret[c].value) = 2

\* The results v of a search with query vector q on table tbl are the best
\* records of tbl, best first
RankedResults(v, q, tbl) ==
    /\ \A i \in 1..Len(v) :
          /\ v[i].id \in DOMAIN tbl
          /\ ScoreEq(v[i].score, Score(q, tbl[v[i].id].vector))
    /\ \A i, j \in 1..Len(v) :
          i < j => /\ v[i].id # v[j].id
                   /\ ~ScoreLess(v[i].score, v[j].score)
                   /\ ScoreEq(v[i].score, v[j].score) => IdBefore(v[i].id, v[j].id)
    /\ \A x \in DOMAIN tbl \ {v[i].id : i \in 1..Len(v)} :
          \A i \in 1..Len(v) : Better(tbl, q, v[i].id, x)

\* C18: the results of a search are records of the table with their scores,
\* in non-increasing score order, equal scores in ascending id order, and no
\* record left out is ranked before one that is returned.
C18_RankingOrder ==
    \A c \in Callers :
        /\ Searched(c) => RankedResults(ret[c].value, ret[c].q, ret[c].at)
        /\ (Streaming(c) /\ pc[c] = "done")
              => RankedResults(ret[c].out, ret[c].q, ret[c].at)

\* a = [1,0], b = [0,1], c = [0,1]: search_by_vector([1,0], 3) has returned a
\* with score 1, then b and c, both with score 0
C18_Witness ==
    \E c \in Callers :
        /\ Searched(c) /\ cur[c] = [op |-> "search_by_vector", vector |-> <<1, 0>>, k |-> 3]
        /\ ret[c].at = VectorTable([i \in SearchIds |-> IF i = "a" THEN <<1, 0>> ELSE <<0, 1>>])
        /\ [i \in 1..Len(ret[c].value) |-> ret[c].value[i].id] = <<"a", "b", "c">>
        /\ ret[c].value[1].score.num = ret[c].value[1].score.den
        /\ ret[c].value[2].score.num = 0 /\ ret[c].value[3].score.num = 0

\* What search(query, k, return_objects=True) returns on table tbl when the
\* query is encoded as q
SearchObjects(tbl, q, k) == SearchReturn(StoreSearch(tbl, q, k).hits, TRUE)

\* C19: what a search_streaming has yielded so far is a prefix of what
\* search(query, k, return_objects=True) returns on the table the stream
\* ranked; once exhausted it has yielded all of it, min(k, count) elements.
\* This holds of every stream by itself, whatever other streams have consumed.
C19_StreamingEqualsSearch ==
    \A c \in Callers :
        Streaming(c) =>
            LET full == SearchObjects(ret[c].at, ret[c].q, cur[c].k)
                out == ret[c].out
            IN  /\ Len(out) <= Len(full)
                /\ out = SubSeq(full, 1, Len(out))
                /\ pc[c] = "stream_yield" => Len(out) >= 1
                /\ pc[c] = "done" =>
                      /\ out = full
                      /\ Len(out) = Min(cur[c].k, StoreLen(ret[c].at))

\* Two streams of the same query with k = 3 on three records have both been
\* consumed to the end, each yielding the three results
C19_Witness ==
    \E c, d \in Callers :
        /\ c # d
        /\ Streaming(c) /\ Streaming(d)
        /\ pc[c] = "done" /\ pc[d] = "done"
        /\ cur[c] = cur[d] /\ cur[c].k = 3
        /\ StoreLen(ret[c].at) = 3
        /\ Len(ret[c].out) = 3
        /\ ret[d].out = ret[c].out

\* C20: no record of the table has a content field; what get returns has
\* only title, url and summary; every search result, dictionary or
\* SearchResult, returned or yielded, has only id, score, title, url, summary.
C20_ContentNeverPersists ==
    /\ \A id \in DOMAIN table : DOMAIN table[id] = MetaFields \cup {"vector"}
    /\ \A c \in Callers :
          /\ (pc[c] = "done" /\ cur[c].op = "get")
                => (ret[c] = NoMeta \/ DOMAIN ret[c] = MetaFields)
          /\ Searched(c)
                => \A i \in 1..Len(ret[c].value) : DOMAIN ret[c].value[i] = ResultFields
          /\ Streaming(c)
                => \A i \in 1..Len(ret[c].out) : DOMAIN ret[c].out[i] = ResultFields

\* q has been added with content "yo", and a search for dictionaries has
\* returned q among its results
C20_Witness ==
    \E c, d \in Callers :
        /\ cur[d] = [op |-> "add", a |-> AddDefaults(DocQ)]
        /\ pc[d] = "done" /\ result[d] = "ok"
        /\ Searched(c) /\ cur[c].op = "search" /\ ~cur[c].return_objects
        /\ \E i \in 1..Len(ret[c].value) :
              /\ ret[c].value[i].id = "q"
              /\ DOMAIN ret[c].value[i] = ResultFields

-----------------------------------------------------------------------------
(* The validation error of add_batch *)

\* The entries of the batch of caller c that lack an id or a content
Offending(c) == {i \in 1..Len(cur[c].docs) : Missing(cur[c].docs[i])}

\* C21: the ValueError add_batch raises names every entry of the batch that
\* lacks a required field.
C21_ReportNamesAll ==
    \A c \in Callers :
        (IsBatch(c) /\ pc[c] = "done" /\ result[c] = "ValueError")
            => ret[c].named = Offending(c)

-----------------------------------------------------------------------------
(* Failures of the embedder *)

\* C22: no call ends with the embedder's own exception: a failure of encode
\* reaches the caller wrapped, as the embedding error of the store.
C22_EmbedderFailureWrapped ==
    \A c \in Callers : pc[c] = "done" => result[c] # ProviderError

-----------------------------------------------------------------------------
(* The lifetime of the worker pool *)

\* C23: the executor is shut down only by a step of a call that a caller
\* makes, an explicit shutdown, never by a step that belongs to no call.
C23_ShutdownIsACall ==
    [][(executor = "running" /\ executor' = "shutdown")
          => \E c \in Callers : pc'[c] # pc[c]]_vars

-----------------------------------------------------------------------------
(* Construction *)

\* The dimension the caller asked for
Requested(c) == IF cur[c].given THEN cur[c].dimension ELSE Dim

\* C24: constructing a store with a dimension of 0 or less fails with
\* InvalidDimension and leaves the caller without a store; with a positive
\* dimension it gives a store of that dimension that is empty and has count 0.
C24_Construction ==
    \A c \in Callers :
        (pc[c] = "done" /\ cur[c].op = "create") =>
            IF Requested(c) <= 0
            THEN result[c] = "InvalidDimension" /\ ret[c] = NoMeta
            ELSE /\ result[c] = "ok"
                 /\ ret[c].dimension = Requested(c)
                 /\ IsEmptyOf(ret[c].table)
                 /\ CountOf(ret[c].table) = 0

\* One caller asked for dimension 0 and failed, another asked for dimension 1
\* and has an empty store
C24_Witness ==
    \E c, d \in Callers :
        /\ cur[c] = [op |-> "create", given |-> TRUE, dimension |-> 0]
        /\ pc[c] = "done" /\ result[c] = "InvalidDimension"
        /\ cur[d] = [op |-> "create", given |-> TRUE, dimension |-> 1]
        /\ pc[d] = "done" /\ result[d] = "ok"
        /\ ret[d].table = EmptyTable

-----------------------------------------------------------------------------
(* The observers *)

\* The ids for which get returns a record
Present(tbl) == {id \in Ids : StoreGet(tbl, id) # NoMeta}

\* C25: on every table the store reaches, count() and len(store) are the
\* number of ids for which get returns a record, is_empty() holds exactly
\* when that number is 0, and `id in store` exactly when get(id) returns a
\* record.
C25_ObserversAgree ==
    /\ CountOf(table) = LenOf(table)
    /\ CountOf(table) = Cardinality(Present(table))
    /\ IsEmptyOf(table) <=> CountOf(table) = 0
    /\ \A id \in Ids : ContainsOf(table, id) <=> id \in Present(table)

\* q has been added without a title and nobody is inside a call: count() has
\* returned 1, q is in the store, p is not
C25_Witness ==
    \E c, d \in Callers :
        /\ cur[c] = [op |-> "add", a |-> AddDefaults(DocQ)]
        /\ pc[c] = "done" /\ result[c] = "ok"
        /\ cur[d].op = "count" /\ pc[d] = "done" /\ ret[d].n = 1
        /\ CountOf(table) = 1 /\ ~IsEmptyOf(table)
        /\ ContainsOf(table, "q") /\ ~ContainsOf(table, "p")
        /\ table["q"].title = ""

-----------------------------------------------------------------------------
(* add_batch that returns *)

\* The entries of the batch of caller c have pairwise distinct ids
DistinctIds(c) ==
    \A i, j \in 1..Len(cur[c].docs) :
        i # j => cur[c].docs[i].id # cur[c].docs[j].id

\* C26: after an add_batch with pairwise distinct ids has returned, in either
\* mode, every id of the batch has been written, and unless another caller
\* has written it since, it is in the table with the title, url and summary
\* of its entry, fields the entry does not have being empty.
C26_BatchStoresAll ==
    \A c \in Callers :
        (IsBatch(c) /\ pc[c] = "done" /\ result[c] = "ok" /\ DistinctIds(c)) =>
            \A i \in 1..Len(cur[c].docs) :
                LET t == LastW(cur[c].docs[i].id)
                IN  /\ t # NoTag
                    /\ t[1] = c => (t = Tag(c, i) /\ Survives(c, i))

\* A parallel add_batch of DocP and DocQ has returned: both are in the table,
\* q with empty title, url and summary
C26_Witness ==
    \E c \in Callers :
        /\ cur[c] = [op |-> "add_batch", docs |-> <<DocP, DocQ>>, parallel |-> TRUE]
        /\ pc[c] = "done" /\ result[c] = "ok"
        /\ LastW("p") = Tag(c, 1) /\ LastW("q") = Tag(c, 2)
        /\ Snapshot(table, "p") = [title |-> "A", url |-> "", summary |-> "S1"]
        /\ Snapshot(table, "q") = [title |-> "", url |-> "", summary |-> ""]

-----------------------------------------------------------------------------
(* delete_batch *)

\* The ids caller c has asked to delete
IdsOf(c) == {cur[c].ids[i] : i \in 1..Len(cur[c].ids)}

\* Caller c is inside the loop of delete_batch
InDeleteBatch(c) == pc[c] = "delb"

\* C27: from the first rm of a delete_batch to its return nothing but its own
\* rm calls changes the table, each of them leaves every record whose id is
\* not in ids as it was, and the call returns without an error, absent ids
\* included, with none of its ids in the table.
C27_DeleteBatch ==
    [][\A c \in Callers :
         InDeleteBatch(c) =>
            /\ \A i \in DOMAIN table \ IdsOf(c) :
                  i \in DOMAIN table' /\ table'[i] = table[i]
            /\ \A i \in DOMAIN table' \ IdsOf(c) : i \in DOMAIN table
            /\ table' # table => (idx'[c] # idx[c] \/ pc'[c] = "done")
            /\ pc'[c] = "done" =>
                  /\ result'[c] = "ok"
                  /\ \A i \in IdsOf(c) : StoreGet(table', i) = NoMeta]_vars

\* delete_batch(["p", "p"]) has returned on a store that held p: the second
\* rm found the id absent, and the record of q is in the table
C27_Witness ==
    \E c \in Callers :
        /\ cur[c] = [op |-> "delete_batch", ids |-> <<"p", "p">>]
        /\ pc[c] = "done" /\ result[c] = "ok"
        /\ "p" \in DOMAIN table0 /\ LastW("p") = Tag(c, 1)
        /\ "p" \notin DOMAIN table /\ "q" \in DOMAIN table

-----------------------------------------------------------------------------
(* SearchResult as a value *)

\* Two instances have equal fields
SameFields(a, b) ==
    \A n \in FieldNames :
        IF n = "score" THEN ScoreEq(a[n], b[n]) ELSE a[n] = b[n]

\* C28: assigning to an attribute of a SearchResult raises and leaves the
\* object as it was; two results with equal fields are equal; to_dict() has
\* exactly the keys id, score, title, url, summary with the object's values,
\* and SearchResult(**r.to_dict()) is built without an error and equals r.
C28_ImmutableValue ==
    \A c \in Callers :
        pc[c] = "done" =>
            /\ cur[c].op = "setattr" =>
                  /\ result[c] \notin {"ok", "pending"}
                  /\ ret[c].obj = cur[c].obj
            /\ cur[c].op = "eq" =>
                  (SameFields(cur[c].obj, cur[c].other) => ret[c].eq)
            /\ cur[c].op = "to_dict" =>
                  LET d == ret[c].dict
                  IN  /\ Len(d) = Cardinality(FieldNames)
                      /\ DictKeys(d) = ResultFields
                      /\ \A n \in ResultFields :
                            DictValue(d, n) = cur[c].obj[n]
                      /\ ret[c].rebuilt.result = "ok"
                      /\ SearchResultEq(ret[c].rebuilt.obj, cur[c].obj)

\* One caller has tried to assign the title of a result and got the error,
\* another has rebuilt a result with a summary from its to_dict()
C28_Witness ==
    \E c, d \in Callers :
        /\ pc[c] = "done" /\ cur[c].op = "setattr" /\ cur[c].name = "score"
        /\ result[c] = "FrozenInstanceError" /\ ret[c].obj.title = "A"
        /\ pc[d] = "done" /\ cur[d].op = "to_dict" /\ cur[d].obj.summary = "S1"
        /\ ret[d].rebuilt.obj = cur[d].obj

-----------------------------------------------------------------------------
(* Sequential add_batch *)

\* Caller c is in, or has left, a sequential add_batch
Sequential(c) == IsBatch(c) /\ ~cur[c].parallel

\* The last writer of id in the next state
NextLastW(id) == IF id \in DOMAIN lastw' THEN lastw'[id] ELSE NoTag

\* The step from the current state to the next writes id for caller c
WritesFor(c, id) ==
    /\ NextLastW(id) # LastW(id)
    /\ NextLastW(id) # NoTag
    /\ NextLastW(id)[1] = c

\* C29: a sequential add_batch is at one entry at a time and moves from entry
\* i to entry i + 1 only in the step that completes the upsert of entry i,
\* so the embedding of entry i + 1 starts after it; every write of the call
\* is the write of the entry it is at; it hands nothing to the executor; and
\* once it has returned or raised, at entry i, it stays there: no later entry
\* is embedded or inserted.
C29_SequentialInOrder ==
    [][\A c \in Callers :
         Sequential(c) =>
            LET doc == cur[c].docs[idx[c]]
            IN  /\ idx'[c] \in {idx[c], idx[c] + 1}
                /\ idx'[c] = idx[c] + 1 =>
                      /\ pc[c] = "add_encode" /\ pc'[c] = "seq"
                      /\ NextLastW(doc.id) = Tag(c, idx[c])
                      /\ Snapshot(table', doc.id) = OwnMeta(doc)
                /\ (pc'[c] = "add_encode" /\ pc[c] # "add_encode") =>
                      (pc[c] = "add_lock" /\ idx'[c] = idx[c])
                /\ \A id \in Ids :
                      WritesFor(c, id) =>
                         /\ pc[c] = "add_encode"
                         /\ id = doc.id
                         /\ NextLastW(id) = Tag(c, idx[c])
                /\ TasksOf(c)' = {}
                /\ pc[c] = "done" => (pc'[c] = "done" /\ idx'[c] = idx[c])
                /\ (pc[c] # "done" /\ pc'[c] = "done" /\ result'[c] # "ok") =>
                      idx'[c] = idx[c]]_vars

\* A sequential add_batch of DocP and DocQ has raised at its first entry:
\* nothing was inserted for p, and q was never written
C29_Witness ==
    \E c \in Callers :
        /\ cur[c] = [op |-> "add_batch", docs |-> <<DocP, DocQ>>, parallel |-> FALSE]
        /\ pc[c] = "done" /\ result[c] \in EmbeddingFailures
        /\ idx[c] = 1
        /\ LastW("p") = NoTag /\ LastW("q") = NoTag
        /\ "q" \notin DOMAIN table

-----------------------------------------------------------------------------
(* Parallel add_batch: dispatched work completes *)

\* The work items the pool can be given in SpecLifetimeFair
PoolTasks == 1..(MaxCallers * MaxBatch)

\* The add of work item k has run to its end
Ran(k) == k \in TaskIdx /\ tasks[k].st \in {"ok"} \cup EmbeddingFailures

\* C30: every entry of a parallel add_batch that was handed to the pool has
\* its add run to the end, whatever became of the other entries and whether
\* or not add_batch has raised meanwhile; and the step that ends the add of
\* an entry whose embedding succeeded inserts its record.
C30_DispatchedCompletes ==
    /\ \A k \in PoolTasks : (k \in TaskIdx) ~> Ran(k)
    /\ [][\A k \in TaskIdx :
             (tasks[k].st = "add_encode" /\ tasks'[k].st # "add_encode") =>
                \/ /\ tasks'[k].st = "ok"
                   /\ Snapshot(table', tasks[k].a.doc_id) = Meta(tasks[k].a)
                   /\ NextLastW(tasks[k].a.doc_id) = Tag(tasks[k].owner, tasks[k].entry)
                \/ /\ tasks'[k].st \in EmbeddingFailures
                   /\ table' = table]_vars

\* A parallel add_batch has raised the failure of its first entry, and its
\* second entry is in the table
C30_Witness ==
    \E c \in Callers :
        /\ IsBatch(c) /\ pc[c] = "done" /\ result[c] \in EmbeddingFailures
        /\ \E j, k \in TasksOf(c) :
              /\ tasks[j].entry = 1 /\ tasks[j].st \in EmbeddingFailures
              /\ tasks[k].entry = 2 /\ tasks[k].st = "ok"
              /\ LastW("q") = Tag(c, 2)
        /\ "q" \in DOMAIN table

-----------------------------------------------------------------------------
(* The lock after a failure *)

\* Caller c is blocked on the lock, or inside it
AtLock(c) == pc[c] \in {"add_lock", "upd_lock", "del_lock", "delb_lock"}
InLock(c) == pc[c] \in {"add_encode", "upd", "del", "delb"}

\* The write of caller c has ended with an exception
FailedWrite(c) == pc[c] = "done" /\ result[c] \notin {"ok", "pending"}

\* C31: the lock is held only by a caller that is inside the with block of
\* its add, update, delete or delete_batch, never by one whose call has
\* ended, with or without an exception; and a caller that waits for the lock,
\* also after the write of another has failed, gets it and ends its call.
C31_LockReleased ==
    /\ [](\A c \in Callers : lock = CallerId(c) => InLock(c))
    /\ \A c \in 1..MaxCallers : (c \in Callers /\ AtLock(c)) ~> (pc[c] = "done")
    /\ \A c \in 1..MaxCallers :
          (c \in Callers /\ AtLock(c) /\ \E d \in Callers : FailedWrite(d))
              ~> (pc[c] = "done" /\ lock # CallerId(c))

\* An update of q has failed on a store without q, and an add of q made by
\* another caller after it has gone through the lock and stored q
C31_Witness ==
    \E c, d \in Callers :
        /\ cur[d].op = "update" /\ cur[d].id = "q" /\ FailedWrite(d)
        /\ cur[c].op = "add" /\ pc[c] = "done" /\ result[c] = "ok"
        /\ LastW("q") = Tag(c, 0) /\ "q" \in DOMAIN table
        /\ lock = NoThread

-----------------------------------------------------------------------------
(* Parallel add_batch terminates *)

\* C32: a parallel add_batch returns or raises, whatever its size, larger
\* than the pool included, and whatever add, update, delete or add_batch other
\* threads make on the store meanwhile; and so does every other call; the
\* work items the batch has left in the pool when it raised run to their end.
C32_ParallelTerminates ==
    /\ \A c \in 1..MaxCallers :
          (c \in Callers /\ pc[c] # "idle") ~> (pc[c] = "done")
    /\ <>[](\A k \in TaskIdx : Ran(k))

\* A parallel add_batch of more entries than the pool has threads has ended
\* with every one of its entries run, next to the update of another caller
C32_Witness ==
    \E c, d \in Callers :
        /\ IsBatch(c) /\ cur[c].parallel /\ pc[c] = "done"
        /\ Len(cur[c].docs) > max_workers
        /\ Cardinality(TasksOf(c)) = Len(cur[c].docs)
        /\ \A k \in TasksOf(c) : Ran(k)
        /\ cur[d].op = "update" /\ pc[d] = "done" /\ result[d] = "ok"

-----------------------------------------------------------------------------
(* delete_batch as one unit *)

\* Caller c is between taking the lock for its delete_batch and its return
Removing(c) ==
    /\ cur[c].op = "delete_batch"
    /\ pc[c] # "done"
    /\ pc[c] = "delb" \/ idx[c] > 1

\* C33: from its first removal to its last a delete_batch holds the lock; no
\* other caller and no work item of the pool is inside an add, update or
\* delete meanwhile, and every write to the table in that time is a removal
\* of the batch itself.
C33_DeleteBatchAtomic ==
    [][\A c \in Callers :
         Removing(c) =>
            /\ lock = CallerId(c)
            /\ \A d \in Callers \ {c} : ~InLock(d) /\ pc'[d] \notin {"add_encode", "upd", "del", "delb"}
            /\ \A k \in TaskIdx : tasks[k].st # "add_encode" /\ tasks'[k].st # "add_encode"
            /\ \A id \in Ids :
                  NextLastW(id) # LastW(id) => NextLastW(id) = Tag(c, idx[c])
            /\ table' # table => (idx'[c] = idx[c] + 1 \/ pc'[c] = "done")]_vars

\* delete_batch(["p", "q"]) has removed p and not yet q, while another caller
\* that adds p again is blocked on the lock
C33_Witness ==
    \E c, d \in Callers :
        /\ cur[c] = [op |-> "delete_batch", ids |-> <<"p", "q">>]
        /\ pc[c] = "delb" /\ idx[c] = 2
        /\ LastW("p") = Tag(c, 1) /\ "p" \notin DOMAIN table
        /\ cur[d].op = "add" /\ cur[d].a.doc_id = "p" /\ pc[d] = "add_lock"

-----------------------------------------------------------------------------
(* search_streaming is lazy *)

\* Caller c has made a search_streaming
IsStream(c) == cur[c].op = "search_streaming"

\* C34: a stream that has been created and not yet consumed has embedded
\* nothing and asked the table nothing; the step that produces its first
\* element ranks the table as it is at that step; and from then on the
\* stream keeps the results of that ranking, whatever is written to the
\* table, yielding them one at a time in their order.
C34_StreamingLazy ==
    [][\A c \in Callers :
         IsStream(c) =>
            /\ pc[c] = "stream_new" => (ret[c] = NoMeta /\ result[c] = "pending")
            /\ (pc[c] = "stream_new" /\ pc'[c] # "stream_new") =>
                  /\ ret'[c].at = table
                  /\ ret'[c].q # <<>> =>
                        ret'[c].raw = StoreSearch(table, ret'[c].q, cur[c].k).hits
            /\ pc[c] = "stream_yield" =>
                  /\ ret'[c].raw = ret[c].raw
                  /\ ret'[c].at = ret[c].at
                  /\ ret'[c].q = ret[c].q
                  /\ \/ ret'[c].out = ret[c].out
                     \/ /\ Len(ret[c].out) < Len(ret[c].raw)
                        /\ ret'[c].out =
                              Append(ret[c].out,
                                     StreamObjectOf(ret[c].raw[Len(ret[c].out) + 1]))]_vars

\* A stream has yielded its first element and has more to yield, among them
\* a record that has been deleted from the table since
C34_Witness ==
    \E c \in Callers :
        /\ IsStream(c) /\ pc[c] = "stream_yield"
        /\ Len(ret[c].out) < Len(ret[c].raw)
        /\ ret[c].at # table
        /\ \E i \in (Len(ret[c].out) + 1)..Len(ret[c].raw) :
              ret[c].raw[i].id \notin DOMAIN table

-----------------------------------------------------------------------------
(* A batch with an id more than once *)

\* The positions of id in the batch of caller c
PositionsOf(c, id) == {i \in 1..Len(cur[c].docs) : cur[c].docs[i].id = id}

\* The last of a non-empty set of positions
LastOf(S) == CHOOSE i \in S : \A j \in S : j <= i

\* C35: after an add_batch has returned, an id that the batch holds more than
\* once and that nobody else has written since has one record: the whole
\* metadata of the last entry with that id if the batch was sequential, the
\* whole metadata of one of the entries with that id, the one that wrote
\* last, if it was parallel.
C35_DuplicateIds ==
    \A c \in Callers :
        (IsBatch(c) /\ pc[c] = "done" /\ result[c] = "ok") =>
            \A id \in Ids :
                (Cardinality(PositionsOf(c, id)) > 1 /\ LastW(id) # NoTag /\ LastW(id)[1] = c) =>
                    /\ id \in DOMAIN table
                    /\ LastW(id)[2] \in PositionsOf(c, id)
                    /\ Snapshot(table, id) = OwnMeta(cur[c].docs[LastW(id)[2]])
                    /\ ~cur[c].parallel => LastW(id)[2] = LastOf(PositionsOf(c, id))

\* A parallel add_batch of DocP and DocP2 has returned and the record of p is
\* that of DocP, the first entry, whole
C35_Witness ==
    \E c \in Callers :
        /\ cur[c] = [op |-> "add_batch", docs |-> <<DocP, DocP2>>, parallel |-> TRUE]
        /\ pc[c] = "done" /\ result[c] = "ok"
        /\ LastW("p") = Tag(c, 1)
        /\ Snapshot(table, "p") = OwnMeta(DocP)

-----------------------------------------------------------------------------
(* Empty required fields *)

\* The id or the content of the entry is present, and is '' or None
EmptyField(doc) ==
    \/ "id" \in DOMAIN doc /\ doc.id \in {"", None}
    \/ "content" \in DOMAIN doc /\ doc.content \in {"", None}

\* The id or the content of the entry is not there
AbsentField(doc) == "id" \notin DOMAIN doc \/ "content" \notin DOMAIN doc

\* Entry i of the batch of caller c has been embedded, handed to the pool, or
\* inserted
Touched(c, i) ==
    \/ \E k \in TasksOf(c) : tasks[k].entry = i
    \/ ~cur[c].parallel /\ idx[c] = i /\ pc[c] \in {"add_lock", "add_encode"}
    \/ ~cur[c].parallel /\ idx[c] > i
    \/ \E id \in DOMAIN lastw : lastw[id] = Tag(c, i)

\* C36: an entry of add_batch whose id or content is '' or None is never
\* embedded, handed to the pool or inserted, as an entry without the field is
\* not; and a batch with such an entry never returns normally: it raises the
\* validation error, unless in sequential mode the add of an earlier entry
\* has raised first.
C36_EmptyIsMissing ==
    \A c \in Callers :
        IsBatch(c) =>
            \A i \in 1..Len(cur[c].docs) :
                (EmptyField(cur[c].docs[i]) \/ AbsentField(cur[c].docs[i])) =>
                    /\ ~Touched(c, i)
                    /\ pc[c] = "done" =>
                          \/ result[c] = "ValueError" /\ idx[c] <= i
                          \/ /\ ~cur[c].parallel
                             /\ result[c] \in EmbeddingFailures
                             /\ idx[c] < i

\* A sequential add_batch has stored q and then raised the validation error
\* at its second entry, whose content is the empty string
C36_Witness ==
    \E c \in Callers :
        /\ cur[c] = [op |-> "add_batch", docs |-> <<DocQ, DocEmptyContent>>, parallel |-> FALSE]
        /\ pc[c] = "done" /\ result[c] = "ValueError" /\ idx[c] = 2
        /\ LastW("q") = Tag(c, 1)

-----------------------------------------------------------------------------
(* search: dictionaries and objects *)

\* Two result lists have the same length and, position by position, equal
\* id, score, title, url and summary
SameAnswer(v, w) ==
    /\ Len(v) = Len(w)
    /\ \A i \in 1..Len(v) :
          /\ ResultFields \subseteq DOMAIN v[i]
          /\ ResultFields \subseteq DOMAIN w[i]
          /\ \A f \in ResultFields \ {"score"} : v[i][f] = w[i][f]
          /\ ScoreEq(v[i].score, w[i].score)

\* C37: what a search has returned is, position by position and field by
\* field, what the search with the other value of return_objects returns for
\* the same query vector and k on the table that was ranked.
C37_ObjectsEqualDicts ==
    \A c \in Callers :
        (Searched(c) /\ cur[c].op = "search") =>
            LET hits == StoreSearch(ret[c].at, ret[c].q, cur[c].k).hits
            IN  /\ ret[c].value = SearchReturn(hits, cur[c].return_objects)
                /\ SameAnswer(ret[c].value, SearchReturn(hits, ~cur[c].return_objects))
                /\ SameAnswer(SearchReturn(hits, TRUE), SearchReturn(hits, FALSE))

\* A search for objects has returned three results on a table of three
\* records with titles
C37_Witness ==
    \E c \in Callers :
        /\ Searched(c) /\ cur[c].op = "search" /\ cur[c].return_objects
        /\ Len(ret[c].value) = 3
        /\ \A i \in 1..3 : ret[c].value[i].title # "" /\ ret[c].value[i].url # ""

-----------------------------------------------------------------------------
(* VectorStoreWrapper.add_documents *)

IsAddDocuments(c) == cur[c].op = "add_documents"

\* What add_documents stores for a document
WrapperMeta(doc) ==
    [title |-> DocGet(doc, "title", ""), url |-> DocGet(doc, "url", ""), summary |-> ""]

\* C38: when add_documents has raised ValueError it stands at a document
\* whose id or content is missing or empty; every document before it has
\* been stored and its id is in the table, with the document's title and url
\* if the call itself was the last to write the id; and no document from that
\* position on has been stored by the call.  While the call runs, too, it has
\* stored nothing from its position on.
C38_ValidatesWhenReached ==
    \A c \in Callers :
        IsAddDocuments(c) =>
            /\ \A j \in 1..Len(cur[c].docs) :
                  (j > idx[c] \/ (j = idx[c] /\ result[c] # "ok")) =>
                      \A id \in DOMAIN lastw : lastw[id] # Tag(c, j)
            /\ (pc[c] = "done" /\ result[c] = "ValueError") =>
                  /\ Missing(cur[c].docs[idx[c]])
                  /\ \A j \in 1..(idx[c] - 1) :
                        LET doc == cur[c].docs[j]
                        IN  /\ ~Missing(doc)
                            /\ doc.id \in DOMAIN table
                            /\ LastW(doc.id) # NoTag
                            /\ LastW(doc.id) = Tag(c, j) =>
                                  Snapshot(table, doc.id) = WrapperMeta(doc)

\* add_documents of DocQ and a document without content has stored q and
\* then raised ValueError at the second document
C38_Witness ==
    \E c \in Callers :
        /\ cur[c] = [op |-> "add_documents", docs |-> <<DocQ, DocNoContent>>]
        /\ pc[c] = "done" /\ result[c] = "ValueError" /\ idx[c] = 2
        /\ LastW("q") = Tag(c, 1)
        /\ Snapshot(table, "q") = WrapperMeta(DocQ)

-----------------------------------------------------------------------------
(* The ordering of SearchResult *)

\* No element of v has a greater score than an element before it
NonIncreasing(v) ==
    \A i, j \in 1..Len(v) : i < j => ~FloatGreater(v[j].score, v[i].score)

\* v holds the elements of l, each once
Rearranged(v, l) ==
    /\ Len(v) = Len(l)
    /\ \A i \in 1..Len(l) : \E j \in 1..Len(v) : v[j] = l[i]

\* a < b is a.score > b.score, never holds of a result and itself, and never
\* both ways
LtReversesScore(c) ==
    /\ ret[c].lt = FloatGreater(cur[c].obj.score, cur[c].other.score)
    /\ cur[c].obj = cur[c].other => ~ret[c].lt
    /\ ~(ret[c].lt /\ ret[c].gt)

\* C39 as stated: a < b exactly when a.score > b.score, never both ways and
\* never of a result and itself, and sorting any list of SearchResult with
\* the default ordering yields non-increasing scores.
C39_SortsAnyList ==
    \A c \in Callers :
        pc[c] = "done" =>
            /\ cur[c].op = "lt" => LtReversesScore(c)
            /\ cur[c].op = "sorted" =>
                  /\ Rearranged(ret[c].sorted, cur[c].list)
                  /\ NonIncreasing(ret[c].sorted)

\* Every score of the list is a number
AllNumbers(l) == \A i \in 1..Len(l) : IsNumber(l[i].score)

\* C39, amended: a < b exactly when a.score > b.score, never both ways and
\* never of a result and itself, for all scores, NaN included; and sorting a
\* list of SearchResult none of whose scores is NaN yields non-increasing
\* scores.
C39_SortsNumbers ==
    \A c \in Callers :
        pc[c] = "done" =>
            /\ cur[c].op = "lt" => LtReversesScore(c)
            /\ (cur[c].op = "sorted" /\ AllNumbers(cur[c].list)) =>
                  /\ Rearranged(ret[c].sorted, cur[c].list)
                  /\ NonIncreasing(ret[c].sorted)

\* A list with the scores 1/2, 1, 2/4 has been sorted: the result with score
\* 1 has come first and the two others have kept their order
C39_Witness ==
    \E c \in Callers :
        /\ pc[c] = "done" /\ cur[c].op = "sorted"
        /\ Len(cur[c].list) = 3 /\ AllNumbers(cur[c].list)
        /\ [i \in 1..3 |-> cur[c].list[i].score.num] = <<1, 1, 2>>
        /\ [i \in 1..3 |-> ret[c].sorted[i].id] = <<"b", "a", "c">>

====
